---- MODULE Spec2Model ----
(***************************************************************************)
(* Retrieval subsystem of the support chatbot:                             *)
(*   RAGSystemLite (rag_system_lite.py)  lexical TF-IDF index              *)
(*   RAGSystem     (rag_system.py)       dense embedding index (FAISS)     *)
(*   GroqClient    (groq_client.py)      text-generation delegate          *)
(*   PDFProcessor  (pdf_processor.py)    file loader and chunker           *)
(*                                                                         *)
(* A text is a sequence of words.  The library calls are modelled by what  *)
(* they do to the words: the vectorizer keeps a vocabulary with the        *)
(* document-frequency limits of the constructor, a matrix row is the set   *)
(* of vocabulary columns a text hits (binary weights), similarity is the   *)
(* cosine of two such rows in hundredths, an embedding is the set of words *)
(* of a text and distance is the squared L2 distance of two indicator      *)
(* vectors in hundredths.  Python's None is <<>>, a present value <<v>>.   *)
(* For the chunker a text is a sequence of characters.                     *)
(***************************************************************************)
EXTENDS Integers, Sequences, FiniteSets, TLC

VARIABLES mode, groq_client,
          vectorizer, tfidf_matrix, index, chunks, disk, ret,
          bpc, bArg, bOld, spc, sArg, sLocal,
          doc, call,
          now, active_consultations, admin_responses, topic_ids,
          summaries, notices, accepted, delivered, resp, threads

vars == <<mode, groq_client,
          vectorizer, tfidf_matrix, index, chunks, disk, ret,
          bpc, bArg, bOld, spc, sArg, sLocal,
          doc, call,
          now, active_consultations, admin_responses, topic_ids,
          summaries, notices, accepted, delivered, resp, threads>>

config == <<mode, groq_client>>
instance == <<vectorizer, tfidf_matrix, index, chunks>>
procs == <<bpc, bArg, bOld, spc, sArg, sLocal>>
(* doc: the call of the PDFProcessor; call: the generate_answer call whose *)
(* delegate request is in flight.  The index operations touch neither.     *)
webapp == <<now, active_consultations, admin_responses, topic_ids,
            summaries, notices, accepted, delivered, resp, threads>>
aside == <<doc, call, webapp>>

-----------------------------------------------------------------------------
(* Bounds of the model *)

MaxChunks == 3

MaxK == 3

(* Program constants, in hundredths where the source has a fraction *)

MaxDfPercent == 95

MinDf == 1

HighSimilarity == 30

HighDistance == 80

FallbackParts == 2

GroqSources == 3

GroqContext == 20

-----------------------------------------------------------------------------
(* Python values *)

None == <<>>

Some(v) == <<v>>

IsNone(o) == o = <<>>

Val(o) == o[1]

Range(s) == {s[i] : i \in 1..Len(s)}

Min2(a, b) == IF a < b THEN a ELSE b

Max2(a, b) == IF a > b THEN a ELSE b

(* seq[start:] of Python, start possibly negative; 0-based start *)
PySliceFrom(s, start) ==
    LET n == Len(s)
        st == IF start < 0 THEN Max2(n + start, 0) ELSE Min2(start, n)
    IN  SubSeq(s, st + 1, n)

(* seq[:stop] of Python for stop >= 0 *)
PySliceTo(s, stop) == SubSeq(s, 1, Min2(stop, Len(s)))

(* seq[::-1] *)
Reverse(s) == [i \in 1..Len(s) |-> s[Len(s) + 1 - i]]

(* sep.join(parts) for texts that are sequences of words *)
RECURSIVE Join(_, _)
Join(sep, parts) ==
    IF parts = <<>> THEN <<>>
    ELSE IF Len(parts) = 1 THEN parts[1]
    ELSE parts[1] \o <<sep>> \o Join(sep, Tail(parts))

-----------------------------------------------------------------------------
(* The data the model draws its inputs from *)

Terms == {"hours", "office", "reset", "vpn"}

(* alphabetical order of the features, the column order of the vectorizer *)
TermRank == [t \in Terms |->
               CASE t = "hours" -> 1 [] t = "office" -> 2
                 [] t = "reset" -> 3 [] t = "vpn" -> 4]

ChunkA == [text |-> <<"office", "hours">>,
           metadata |-> [page_number |-> 3, source |-> "guide.pdf"]]

ChunkB == [text |-> <<"office", "vpn">>,
           metadata |-> [page_number |-> 1, source |-> "guide.pdf"]]

ChunkPool == {ChunkA, ChunkB}

RECURSIVE SeqsUpTo(_, _)
SeqsUpTo(S, n) ==
    IF n = 0 THEN {<<>>}
    ELSE LET shorter == SeqsUpTo(S, n - 1)
         IN  shorter \cup {Append(s, x) : s \in {t \in shorter : Len(t) = n - 1}, x \in S}

Corpora == SeqsUpTo(ChunkPool, MaxChunks)

Queries == {<<>>, <<"office", "hours">>, <<"hours", "vpn">>}

TopKs == 0..MaxK

SimilarityThresholds == {0, 5, 70, 100}

DistanceThresholds == {0, 100, 150, 200}

DelegateOutcomes == {"ok", "exception", "empty"}

RefinedText == <<"refined">>

ParagraphSep == "\n\n"


-----------------------------------------------------------------------------
(* TfidfVectorizer(max_features=10000, ngram_range=(1,3), min_df=1,        *)
(* max_df=0.95, sublinear_tf=True) as far as the index depends on it.      *)
(* The state of the vectorizer object: whether vocabulary_ is set, the     *)
(* vocabulary, and whether the idf weights of its transformer are fitted.  *)

UnfittedVectorizer == [fitted |-> FALSE, vocabulary |-> {}, idf |-> FALSE]

WordsOf(text) == Range(text)

DocFreq(texts, t) == Cardinality({i \in 1..Len(texts) : t \in WordsOf(texts[i])})

AllWords(texts) == UNION {WordsOf(texts[i]) : i \in 1..Len(texts)}

(* the features that survive the document-frequency limits: a float max_df *)
(* is a share of the documents, an integer min_df a count                  *)
KeptFeatures(texts) ==
    {t \in AllWords(texts) :
        /\ DocFreq(texts, t) * 100 <= MaxDfPercent * Len(texts)
        /\ DocFreq(texts, t) >= MinDf}

(* fit_transform raises ValueError on an empty vocabulary, when max_df     *)
(* corresponds to fewer documents than min_df, and when no feature is left *)
FitRaises(texts) ==
    \/ AllWords(texts) = {}
    \/ MaxDfPercent * Len(texts) < MinDf * 100
    \/ KeptFeatures(texts) = {}

(* column of a feature: its rank in the sorted vocabulary *)
Column(vocabulary, t) ==
    1 + Cardinality({u \in vocabulary : TermRank[u] < TermRank[t]})

(* the non-zero columns of the row of one text *)
Row(vocabulary, text) == {Column(vocabulary, t) : t \in WordsOf(text) \cap vocabulary}

(* the matrix fit_transform returns: one row per text, in order *)
FitMatrix(texts) ==
    LET vocabulary == KeptFeatures(texts)
    IN  [rows |-> [i \in 1..Len(texts) |-> Row(vocabulary, texts[i])],
         ncols |-> Cardinality(vocabulary)]

(* the vectorizer after fit_transform(texts): a fit that raises has        *)
(* already replaced the idf transformer and keeps the old vocabulary       *)
FitVectorizer(v, texts) ==
    IF FitRaises(texts)
    THEN [v EXCEPT !.idf = FALSE]
    ELSE [fitted |-> TRUE, vocabulary |-> KeptFeatures(texts), idf |-> TRUE]

(* vectorizer.transform([query]) raises NotFittedError unless fitted *)
TransformRaises(v) == ~v.fitted \/ ~v.idf

Transform(v, query) == [cols |-> Row(v.vocabulary, query), ncols |-> Cardinality(v.vocabulary)]

(* integer square root of x <= 10000: the tens first, then the units *)
ISqrt(x) ==
    LET t == CHOOSE d \in 0..10 : (10 * d) * (10 * d) <= x /\ (10 * d + 10) * (10 * d + 10) > x
    IN  CHOOSE r \in (10 * t)..(10 * t + 9) : r * r <= x /\ (r + 1) * (r + 1) > x

(* cosine of two binary rows, in hundredths; a zero row has similarity 0 *)
Cosine(q, r) ==
    IF q = {} \/ r = {} THEN 0
    ELSE LET c == Cardinality(q \cap r)
         IN  ISqrt((10000 * c * c) \div (Cardinality(q) * Cardinality(r)))

(* cosine_similarity(X, Y) raises on a different number of columns *)
CosineRaises(qv, matrix) == qv.ncols # matrix.ncols

cosine_similarity(qv, matrix) ==
    [i \in 1..Len(matrix.rows) |-> Cosine(qv.cols, matrix.rows[i])]

(* similarities.argsort(): positions in ascending order of value.  The     *)
(* default kind is not a stable sort: equal values come in ascending       *)
(* position under a stable run and are taken in descending position under  *)
(* the other; the order is fixed for one build of the library.             *)
Before(a, i, j, stable) ==
    \/ a[i] < a[j]
    \/ a[i] = a[j] /\ (IF stable THEN i < j ELSE i > j)

argsort(a, stable) ==
    LET n == Len(a)
        pos(i) == 1 + Cardinality({j \in 1..n : Before(a, j, i, stable)})
    IN  [p \in 1..n |-> CHOOSE i \in 1..n : pos(i) = p]

-----------------------------------------------------------------------------
(* SentenceTransformer.encode and faiss.IndexFlatL2 *)

Embed(text) == WordsOf(text)

L2(u, v) == 100 * Cardinality((u \ v) \cup (v \ u))

(* index.search(q, k): the k nearest rows, ascending by distance, equal    *)
(* distances by position                                                   *)
faiss_search(vectors, q, k) ==
    LET d == [i \in 1..Len(vectors) |-> L2(q, vectors[i])]
        order == argsort(d, TRUE)
    IN  [p \in 1..Min2(k, Len(vectors)) |-> [dist |-> d[order[p]], idx |-> order[p]]]

-----------------------------------------------------------------------------
(* RAGSystemLite.search, rag_system_lite.py 74-105 *)

NoResults == [raised |-> FALSE, results |-> <<>>]

Raised == [raised |-> TRUE, results |-> <<>>]

(* the test of line 85 without its first half *)
LiteIndexEmpty_ChunksOnly(m, cs) == Len(cs) = 0

(* line 85: the index is unset or the chunk list empty *)
LiteIndexEmpty(m, cs) == IsNone(m) \/ Len(cs) = 0

(* line 96: similarities.argsort()[-top_k:][::-1] *)
TopIndices(similarities, top_k, stable) ==
    Reverse(PySliceFrom(argsort(similarities, stable), 0 - top_k))

(* the bound of line 101 taken one short *)
ValidIndex_OneShort(idx, cs) == idx < Len(cs)

(* line 101: idx < len(self.chunks), for positions counted from 1 *)
ValidIndex(idx, cs) == idx <= Len(cs)

(* lines 99-103: a result per top index that is a position of the chunk    *)
(* list; idx stands for the identity of the chunk object returned          *)
CollectResults(top_indices, scores, cs) ==
    LET valid == SelectSeq(top_indices, LAMBDA idx : ValidIndex(idx, cs))
    IN  [p \in 1..Len(valid) |->
            [idx |-> valid[p], chunk |-> cs[valid[p]], score |-> scores[valid[p]]]]

LiteSearch(v, m, cs, query, top_k, stable) ==
    IF LiteIndexEmpty(m, cs) THEN NoResults
    ELSE IF TransformRaises(v) THEN Raised
    ELSE IF CosineRaises(Transform(v, query), Val(m)) THEN Raised
    ELSE LET qv == Transform(v, query)
             similarities == cosine_similarity(qv, Val(m))
         IN  [raised |-> FALSE,
              results |-> CollectResults(TopIndices(similarities, top_k, stable),
                                         similarities, cs)]

-----------------------------------------------------------------------------
(* RAGSystem.search, rag_system.py 76-103 *)

(* line 87: index is None or index.ntotal == 0 *)
DenseIndexEmpty(ix) == IsNone(ix) \/ Len(Val(ix)) = 0

(* lines 99-101 *)
CollectDense(found, cs) ==
    LET valid == SelectSeq(found, LAMBDA f : ValidIndex(f.idx, cs))
    IN  [p \in 1..Len(valid) |->
            [idx |-> valid[p].idx, chunk |-> cs[valid[p].idx], score |-> valid[p].dist]]

(* line 95: index.search(query_embedding, min(top_k, ntotal)); a k of 0 is *)
(* refused by the assertion of the wrapper where the library has it, and   *)
(* answered with no neighbours where it has not                            *)
DenseSearch(ix, cs, query, top_k, assertsK) ==
    IF DenseIndexEmpty(ix) THEN NoResults
    ELSE IF Min2(top_k, Len(Val(ix))) <= 0 /\ assertsK THEN Raised
    ELSE [raised |-> FALSE,
          results |-> CollectDense(
              faiss_search(Val(ix), Embed(query), Min2(top_k, Len(Val(ix)))), cs)]

-----------------------------------------------------------------------------
(* GroqClient, groq_client.py *)

(* refine_answer, lines 54-142: None when the client is missing, there is  *)
(* nothing to refine or the call raises; else the stripped reply.  The     *)
(* context (lines 61-68) is a labelled block per result, at most 20.       *)
GroqContextBlocks(search_results) ==
    LET used == PySliceTo(search_results, GroqContext)
    IN  [i \in 1..Len(used) |->
            [doc |-> i, page |-> used[i].chunk.metadata.page_number,
             text |-> used[i].chunk.text]]

refine_answer(available, search_results, outcome) ==
    IF ~available THEN None
    ELSE IF search_results = <<>> THEN None
    ELSE CASE outcome = "ok" -> Some(RefinedText)
           [] outcome = "empty" -> Some(<<>>)
           [] OTHER -> None

(* truth value of an optional text: None and the empty text are false *)
Truthy(o) == ~IsNone(o) /\ Val(o) # <<>>

(* the join of lines 184-187 without the slice *)
original_answer_Unsliced(search_results) ==
    Join(ParagraphSep, [i \in 1..Len(search_results) |-> search_results[i].chunk.text])

(* lines 184-187: the texts of the first two results, joined *)
original_answer(search_results) ==
    LET two == PySliceTo(search_results, FallbackParts)
    IN  Join(ParagraphSep, [i \in 1..Len(two) |-> two[i].chunk.text])

(* lines 167-173: a source per result, for the first three *)
GroqSourcesOf(search_results) ==
    LET top == PySliceTo(search_results, GroqSources)
    IN  [i \in 1..Len(top) |->
            [page |-> top[i].chunk.metadata.page_number,
             similarity |-> top[i].similarity]]

(* lines 163-193 with the fallback marked refined *)
generate_answer_with_sources_Refined(available, search_results, outcome) ==
    [answer |-> Some(original_answer(search_results)),
     sources |-> GroqSourcesOf(search_results),
     refined |-> Some(TRUE), confidence |-> "medium"]

(* generate_answer_with_sources, lines 163-193 *)
generate_answer_with_sources(available, search_results, outcome) ==
    LET refined_answer == refine_answer(available, search_results, outcome)
    IN  IF Truthy(refined_answer)
        THEN [answer |-> refined_answer, sources |-> GroqSourcesOf(search_results),
              refined |-> Some(TRUE), confidence |-> "high"]
        ELSE [answer |-> Some(original_answer(search_results)),
              sources |-> GroqSourcesOf(search_results),
              refined |-> Some(FALSE), confidence |-> "medium"]

-----------------------------------------------------------------------------
(* generate_answer of both classes.  An Answer: answer and refined are     *)
(* optional, delegate_calls counts the calls of refine_answer made and     *)
(* context is what the call put before the delegate.                       *)

Absent(confidence) ==
    [answer |-> None, sources |-> <<>>, confidence |-> confidence,
     refined |-> None, delegate_calls |-> 0, context |-> <<>>]

(* the test of line 133 with <= for < *)
SimilarityFails_OrEqual(similarity, similarity_threshold) ==
    similarity <= similarity_threshold

(* rag_system_lite.py 133: best_similarity < similarity_threshold *)
SimilarityFails(similarity, similarity_threshold) == similarity < similarity_threshold

(* the filter of line 148 letting every candidate through *)
SimilarityPasses_Any(similarity, similarity_threshold) == TRUE

(* rag_system_lite.py 148 and 179: similarity >= similarity_threshold *)
SimilarityPasses(similarity, similarity_threshold) == similarity >= similarity_threshold

(* rag_system.py 131: best_distance > distance_threshold *)
DistanceFails(distance, distance_threshold) == distance > distance_threshold

(* rag_system.py 144: distance <= distance_threshold *)
DistancePasses(distance, distance_threshold) == distance <= distance_threshold

(* rag_system_lite.py 129-206, from the results of search *)
LiteAnswer(results, similarity_threshold, available, outcome) ==
    IF results = <<>> THEN Absent("none")
    ELSE IF SimilarityFails(results[1].score, similarity_threshold) THEN Absent("low")
    ELSE
      LET passing == SelectSeq(results,
                         LAMBDA r : SimilarityPasses(r.score, similarity_threshold))
          search_results_for_groq ==
              [i \in 1..Len(passing) |->
                  [chunk |-> passing[i].chunk, similarity |-> passing[i].score]]
          groq_result == generate_answer_with_sources(available,
                                                      search_results_for_groq, outcome)
          two == SelectSeq(PySliceTo(results, FallbackParts),
                           LAMBDA r : SimilarityPasses(r.score, similarity_threshold))
          calls == IF available THEN 1 ELSE 0
          sent == IF available THEN GroqContextBlocks(search_results_for_groq)
                  ELSE <<>>
      IN  IF search_results_for_groq = <<>> THEN Absent("low")
          ELSE IF available /\ Truthy(groq_result.answer)
          THEN [answer |-> groq_result.answer, sources |-> groq_result.sources,
                confidence |-> groq_result.confidence, refined |-> groq_result.refined,
                delegate_calls |-> calls, context |-> sent]
          ELSE IF two = <<>>
          THEN [Absent("low") EXCEPT !.delegate_calls = calls, !.context = sent]
          ELSE [answer |-> Some(Join(ParagraphSep, [i \in 1..Len(two) |-> two[i].chunk.text])),
                sources |-> [i \in 1..Len(two) |->
                               [page |-> two[i].chunk.metadata.page_number,
                                source |-> two[i].chunk.metadata.source,
                                similarity |-> two[i].score]],
                confidence |-> IF results[1].score > HighSimilarity THEN "high" ELSE "medium",
                refined |-> Some(FALSE),
                delegate_calls |-> calls, context |-> sent]

(* rag_system.py 127-170, from the results of search *)
DenseAnswer(results, distance_threshold) ==
    IF results = <<>> THEN Absent("none")
    ELSE IF DistanceFails(results[1].score, distance_threshold) THEN Absent("low")
    ELSE
      LET two == SelectSeq(PySliceTo(results, FallbackParts),
                           LAMBDA r : DistancePasses(r.score, distance_threshold))
      IN  IF two = <<>> THEN Absent("low")
          ELSE [answer |-> Some(Join(ParagraphSep, [i \in 1..Len(two) |-> two[i].chunk.text])),
                sources |-> [i \in 1..Len(two) |->
                               [page |-> two[i].chunk.metadata.page_number,
                                source |-> two[i].chunk.metadata.source,
                                distance |-> two[i].score]],
                confidence |-> IF results[1].score < HighDistance THEN "high" ELSE "medium",
                refined |-> None,
                delegate_calls |-> 0, context |-> <<>>]

-----------------------------------------------------------------------------
(* State.  vectorizer, tfidf_matrix, index and chunks are the fields of    *)
(* the one instance of the class that mode selects (a RAGSystemLite has no *)
(* index, a RAGSystem no vectorizer and no delegate); disk is the index    *)
(* directory; ret is what the last call gave its caller.                   *)

NoFile == [state |-> "missing"]

EmptyDisk == [vectorizer_pkl |-> NoFile, tfidf_matrix_pkl |-> NoFile,
              faiss_index |-> NoFile, chunks_pkl |-> NoFile]

NoRet == [op |-> "new", raised |-> FALSE, ok |-> FALSE, arg_len |-> 0,
          query |-> <<>>, top_k |-> 0, threshold |-> 0, outcome |-> "",
          results |-> <<>>, answer |-> Absent("")]

Idle == "idle"

(* the fields of an instance, as one value *)
FreshInstance == [vectorizer |-> UnfittedVectorizer, tfidf_matrix |-> None,
                  index |-> None, chunks |-> <<>>]

NoBuild == [chunks |-> <<>>, encode_raises |-> FALSE]

NoSearch == [query |-> <<>>, top_k |-> 0, lib |-> TRUE]

NoLocals == [qv |-> Transform(UnfittedVectorizer, <<>>), top |-> <<>>, pos |-> 0,
             results |-> <<>>]

InitConfig ==
    /\ mode \in {"lexical", "dense"}
    /\ groq_client \in (IF mode = "lexical" THEN BOOLEAN ELSE {FALSE})

(* __init__ of both classes: rag_system_lite.py 31-43, rag_system.py 30-31 *)
InitInstance ==
    /\ vectorizer = UnfittedVectorizer
    /\ tfidf_matrix = None
    /\ index = None
    /\ chunks = <<>>

(* no file processed *)
NoDocument == [op |-> "none", ext |-> "", readable |-> FALSE, pages |-> <<>>,
               text |-> <<>>, chunk_size |-> 0, chunks |-> <<>>, raised |-> FALSE]

(* no delegate request in flight *)
NoCall == [pc |-> Idle, query |-> <<>>, top_k |-> 0, threshold |-> 0,
           results |-> <<>>, outcome |-> ""]

(* app.py 47-51: the stores of the web application, keyed by user_id;     *)
(* a user without an entry has None (active_consultations, topic_ids) or  *)
(* the empty list (admin_responses)                                       *)
Users == {"u1", "u2"}

(* the requests handled at the same time *)
Threads == {"t1", "t2"}

(* no request answered yet *)
NoResp == [endpoint |-> "", user |-> "", message |-> <<>>, before |-> None,
           status |-> 0, type |-> "", forwarded |-> FALSE, started |-> FALSE,
           ended |-> "", queued |-> FALSE, handed |-> None]

(* a thread that handles no request *)
NoThread == [pc |-> Idle, kind |-> "", user |-> "", reason |-> "",
             session_info |-> None, raised |-> ""]

InitWebapp ==
    /\ now = 0
    /\ active_consultations = [u \in Users |-> None]
    /\ admin_responses = [u \in Users |-> <<>>]
    /\ topic_ids = [u \in Users |-> None]
    /\ summaries = <<>>
    /\ notices = <<>>
    /\ accepted = <<>>
    /\ delivered = [u \in Users |-> <<>>]
    /\ resp = NoResp
    /\ threads = [t \in Threads |-> NoThread]

InitAside == doc = NoDocument /\ call = NoCall /\ InitWebapp

InitProcs ==
    /\ bpc = Idle /\ bArg = NoBuild /\ bOld = FreshInstance
    /\ spc = Idle /\ sArg = NoSearch
    /\ sLocal = NoLocals

Init ==
    /\ InitConfig
    /\ InitInstance
    /\ disk = EmptyDisk
    /\ ret = NoRet
    /\ InitProcs
    /\ InitAside

TextsOf(cs) == [i \in 1..Len(cs) |-> cs[i].text]

(* One caller drives the instance: it makes a call, takes what the call    *)
(* gave back, and only then makes the next call.                           *)
Taken == ret.op \notin {"search", "generate_answer"}

take_result ==
    /\ ~Taken
    /\ ret' = [NoRet EXCEPT !.op = "taken"]
    /\ UNCHANGED <<config, aside, instance, disk, procs>>

(* RAGSystemLite.build_index, rag_system_lite.py 57-72: the chunk list is  *)
(* stored before the vectorizer runs                                       *)
LiteBuildIndex(cs) ==
    /\ mode = "lexical"
    /\ Taken
    /\ IF cs = <<>>
       THEN /\ UNCHANGED instance
            /\ ret' = [NoRet EXCEPT !.op = "build_index"]
       ELSE /\ chunks' = cs
            /\ vectorizer' = FitVectorizer(vectorizer, TextsOf(cs))
            /\ tfidf_matrix' = IF FitRaises(TextsOf(cs)) THEN tfidf_matrix
                               ELSE Some(FitMatrix(TextsOf(cs)))
            /\ index' = index
            /\ ret' = [NoRet EXCEPT !.op = "build_index", !.arg_len = Len(cs),
                                    !.raised = FitRaises(TextsOf(cs))]
    /\ UNCHANGED <<config, aside, disk, procs>>

(* RAGSystem.build_index, rag_system.py 55-74: create_embeddings (the      *)
(* model's encode) may raise after the chunk list was stored               *)
DenseBuildIndex(cs, encode_raises) ==
    /\ mode = "dense"
    /\ Taken
    /\ IF cs = <<>>
       THEN /\ UNCHANGED instance
            /\ ret' = [NoRet EXCEPT !.op = "build_index"]
       ELSE /\ chunks' = cs
            /\ index' = IF encode_raises THEN index
                        ELSE Some([i \in 1..Len(cs) |-> Embed(cs[i].text)])
            /\ UNCHANGED <<vectorizer, tfidf_matrix>>
            /\ ret' = [NoRet EXCEPT !.op = "build_index", !.arg_len = Len(cs),
                                    !.raised = encode_raises]
    /\ UNCHANGED <<config, aside, disk, procs>>

build_index_from(inputs) ==
    \E cs \in inputs :
        \/ LiteBuildIndex(cs)
        \/ \E encode_raises \in BOOLEAN : DenseBuildIndex(cs, encode_raises)

build_index == build_index_from(Corpora)

(* search of the instance in the current state.  lib is the one thing the *)
(* libraries leave open: for argsort whether equal values keep their      *)
(* order, for the index whether a k of 0 is refused.                      *)
SearchNow(query, top_k, lib) ==
    IF mode = "lexical"
    THEN LiteSearch(vectorizer, tfidf_matrix, chunks, query, top_k, lib)
    ELSE DenseSearch(index, chunks, query, top_k, lib)

(* the cases of lib that can differ for a call *)
LibChoices(top_k) ==
    IF mode = "lexical" THEN (IF Len(chunks) > 1 THEN BOOLEAN ELSE {TRUE})
    ELSE (IF top_k = 0 THEN BOOLEAN ELSE {TRUE})

search ==
    \E query \in Queries, top_k \in TopKs :
      \E lib \in LibChoices(top_k) :
        LET found == SearchNow(query, top_k, lib)
        IN
        /\ Taken
        /\ ret' = [NoRet EXCEPT !.op = "search", !.query = query, !.top_k = top_k,
                                !.raised = found.raised,
                                !.results = found.results]
        /\ UNCHANGED <<config, aside, instance, disk, procs>>

Thresholds == IF mode = "lexical" THEN SimilarityThresholds ELSE DistanceThresholds

(* what the delegate does when it is called: only a configured client *)
Outcomes == IF groq_client THEN DelegateOutcomes ELSE {"unavailable"}

AnswerNow(results, threshold, outcome) ==
    IF mode = "lexical"
    THEN LiteAnswer(results, threshold, groq_client, outcome)
    ELSE DenseAnswer(results, threshold)

(* generate_answer of both classes: search, then the answer; an exception  *)
(* of search is not caught                                                 *)
generate_answer ==
    \E query \in Queries, top_k \in TopKs, threshold \in Thresholds, outcome \in Outcomes :
      \E lib \in LibChoices(top_k) :
        LET found == SearchNow(query, top_k, lib)
        IN  /\ Taken
            /\ ret' = [NoRet EXCEPT !.op = "generate_answer", !.query = query,
                                    !.top_k = top_k, !.threshold = threshold,
                                    !.outcome = outcome,
                                    !.raised = found.raised,
                                    !.results = found.results,
                                    !.answer = IF found.raised THEN Absent("")
                                               ELSE AnswerNow(found.results, threshold, outcome)]
            /\ UNCHANGED <<config, aside, instance, disk, procs>>

-----------------------------------------------------------------------------
(* save_index and load_index.  A file that was written holds the pickled   *)
(* value; a write that fails leaves the file it had opened truncated.      *)

Written(v) == [state |-> "ok", data |-> v]

Truncated == [state |-> "corrupt"]

Readable(f) == f.state = "ok"

(* one file of save_index: nth in the order of writing, the write failing  *)
(* at file fail_at (0: no failure)                                         *)
WriteNth(old, nth, v, fail_at) ==
    IF fail_at = 0 \/ nth < fail_at THEN Written(v)
    ELSE IF nth = fail_at THEN Truncated
    ELSE old

(* RAGSystemLite.save_index, rag_system_lite.py 215-232 *)
LiteSaveIndex(fail_at) ==
    /\ mode = "lexical"
    /\ Taken
    /\ disk' = [disk EXCEPT
                  !.vectorizer_pkl = WriteNth(@, 1, vectorizer, fail_at),
                  !.tfidf_matrix_pkl = WriteNth(@, 2, tfidf_matrix, fail_at),
                  !.chunks_pkl = WriteNth(@, 3, chunks, fail_at)]
    /\ ret' = [NoRet EXCEPT !.op = "save_index", !.raised = (fail_at # 0)]
    /\ UNCHANGED <<config, aside, instance, procs>>

(* RAGSystem.save_index, rag_system.py 179-190: faiss.write_index raises   *)
(* on an index that is None, before any file is opened                     *)
DenseSaveIndex(fail_at) ==
    /\ mode = "dense"
    /\ Taken
    /\ IF IsNone(index)
       THEN /\ disk' = disk
            /\ ret' = [NoRet EXCEPT !.op = "save_index", !.raised = TRUE]
       ELSE /\ disk' = [disk EXCEPT
                          !.faiss_index = WriteNth(@, 1, index, fail_at),
                          !.chunks_pkl = WriteNth(@, 2, chunks, fail_at)]
            /\ ret' = [NoRet EXCEPT !.op = "save_index", !.raised = (fail_at # 0)]
    /\ UNCHANGED <<config, aside, instance, procs>>

save_index ==
    \/ \E fail_at \in 0..3 : LiteSaveIndex(fail_at)
    \/ \E fail_at \in 0..2 : DenseSaveIndex(fail_at)

(* RAGSystemLite.load_index, rag_system_lite.py 244-265: each field is     *)
(* assigned as soon as its file is read; the first file that cannot be     *)
(* read ends the call with False                                           *)
LiteLoaded_WithoutChunks(inst, d) ==
    LET v_ok == Readable(d.vectorizer_pkl)
        m_ok == v_ok /\ Readable(d.tfidf_matrix_pkl)
        c_ok == m_ok /\ Readable(d.chunks_pkl)
    IN  [vectorizer |-> IF v_ok THEN d.vectorizer_pkl.data ELSE inst.vectorizer,
         tfidf_matrix |-> IF m_ok THEN d.tfidf_matrix_pkl.data ELSE inst.tfidf_matrix,
         index |-> inst.index,
         chunks |-> inst.chunks,
         ok |-> c_ok]

LiteLoaded(inst, d) ==
    LET v_ok == Readable(d.vectorizer_pkl)
        m_ok == v_ok /\ Readable(d.tfidf_matrix_pkl)
        c_ok == m_ok /\ Readable(d.chunks_pkl)
    IN  [vectorizer |-> IF v_ok THEN d.vectorizer_pkl.data ELSE inst.vectorizer,
         tfidf_matrix |-> IF m_ok THEN d.tfidf_matrix_pkl.data ELSE inst.tfidf_matrix,
         index |-> inst.index,
         chunks |-> IF c_ok THEN d.chunks_pkl.data ELSE inst.chunks,
         ok |-> c_ok]

(* RAGSystem.load_index, rag_system.py 202-217 *)
DenseLoaded(inst, d) ==
    LET i_ok == Readable(d.faiss_index)
        c_ok == i_ok /\ Readable(d.chunks_pkl)
    IN  [vectorizer |-> inst.vectorizer,
         tfidf_matrix |-> inst.tfidf_matrix,
         index |-> IF i_ok THEN d.faiss_index.data ELSE inst.index,
         chunks |-> IF c_ok THEN d.chunks_pkl.data ELSE inst.chunks,
         ok |-> c_ok]

(* the fields of the instance in the current state *)
CurrentInstance == [vectorizer |-> vectorizer, tfidf_matrix |-> tfidf_matrix,
                    index |-> index, chunks |-> chunks]

(* load_index called on the instance inst: its fields and its result *)
LoadInto(inst) ==
    LET loaded == IF mode = "lexical" THEN LiteLoaded(inst, disk)
                  ELSE DenseLoaded(inst, disk)
    IN  /\ vectorizer' = loaded.vectorizer
        /\ tfidf_matrix' = loaded.tfidf_matrix
        /\ index' = loaded.index
        /\ chunks' = loaded.chunks
        /\ ret' = [NoRet EXCEPT !.op = "load_index", !.ok = loaded.ok]

LiteLoadIndex ==
    /\ mode = "lexical"
    /\ Taken
    /\ LoadInto(CurrentInstance)
    /\ UNCHANGED <<config, aside, disk, procs>>

DenseLoadIndex ==
    /\ mode = "dense"
    /\ Taken
    /\ LoadInto(CurrentInstance)
    /\ UNCHANGED <<config, aside, disk, procs>>

load_index == LiteLoadIndex \/ DenseLoadIndex

(* load_index with the fields of the instance before the call kept in bOld *)
load_index_again ==
    /\ Taken
    /\ bOld' = CurrentInstance
    /\ LoadInto(CurrentInstance)
    /\ UNCHANGED <<config, aside, disk, bpc, bArg, spc, sArg, sLocal>>

(* the corpora built where snapshots are written and read: none, one that  *)
(* the lexical build refuses, and two of different length                  *)
SnapshotCorpora == {<<>>, <<ChunkA>>, <<ChunkA, ChunkB>>, <<ChunkB, ChunkA, ChunkA>>}

NextPersist == build_index_from(SnapshotCorpora) \/ save_index \/ load_index

SpecPersist == Init /\ [][NextPersist]_vars

(* the same calls with searches between them *)
NextStore ==
    \/ build_index_from(SnapshotCorpora)
    \/ save_index
    \/ load_index
    \/ search
    \/ take_result

SpecStore == Init /\ [][NextStore]_vars

(* load_index of a second, new instance, called when save_index of the     *)
(* first has returned; from then on the second instance is the one the     *)
(* calls are made on, and bOld keeps the fields of the first               *)
load_index_fresh ==
    /\ ret.op = "save_index" /\ ~ret.raised
    /\ bOld' = CurrentInstance
    /\ LoadInto(FreshInstance)
    /\ UNCHANGED <<config, aside, disk, bpc, bArg, spc, sArg, sLocal>>

NextRoundTrip ==
    \/ build_index_from(SnapshotCorpora)
    \/ save_index
    \/ load_index_fresh

SpecRoundTrip == Init /\ [][NextRoundTrip]_vars

NextReload ==
    \/ build_index_from(SnapshotCorpora)
    \/ save_index
    \/ load_index_again

SpecReload == Init /\ [][NextReload]_vars

Next == build_index \/ search \/ generate_answer \/ take_result

Spec == Init /\ [][Next]_vars

-----------------------------------------------------------------------------
(* One build_index call and one search call of two threads on the same     *)
(* instance, statement by statement.  Neither method takes a lock.  bpc    *)
(* and spc are the positions of the two calls, bArg and sArg their         *)
(* arguments, sLocal the local variables of search, bOld the instance as   *)
(* it was before the calls.                                                *)

(* the instance a successful build_index(cs) leaves *)
BuiltInstance(cs) ==
    IF mode = "lexical"
    THEN [vectorizer |-> FitVectorizer(UnfittedVectorizer, TextsOf(cs)),
          tfidf_matrix |-> Some(FitMatrix(TextsOf(cs))),
          index |-> None, chunks |-> cs]
    ELSE [vectorizer |-> UnfittedVectorizer, tfidf_matrix |-> None,
          index |-> Some([i \in 1..Len(cs) |-> Embed(cs[i].text)]), chunks |-> cs]

Buildable(cs) == cs # <<>> /\ (mode = "lexical" => ~FitRaises(TextsOf(cs)))

InitConc ==
    /\ InitConfig
    /\ groq_client = FALSE
    /\ \E cs \in {c \in Corpora : Buildable(c)} :
          /\ bOld = BuiltInstance(cs)
          /\ vectorizer = bOld.vectorizer
          /\ tfidf_matrix = bOld.tfidf_matrix
          /\ index = bOld.index
          /\ chunks = bOld.chunks
    /\ disk = EmptyDisk
    /\ ret = NoRet
    /\ bpc = "ready" /\ bArg = NoBuild
    /\ spc = "ready" /\ sArg = NoSearch /\ sLocal = NoLocals
    /\ InitAside

(* rag_system_lite.py 57-64 and rag_system.py 55-62: self.chunks = chunks *)
BuildStore(cs, encode_raises) ==
    /\ bpc = "ready"
    /\ bArg' = [chunks |-> cs, encode_raises |-> encode_raises]
    /\ IF cs = <<>>
       THEN chunks' = chunks /\ bpc' = "done"
       ELSE chunks' = cs /\ bpc' = (IF mode = "lexical" THEN "fit" ELSE "new_index")
    /\ UNCHANGED <<config, aside, vectorizer, tfidf_matrix, index, disk, ret, bOld,
                   spc, sArg, sLocal>>

(* rag_system_lite.py 70, the call: fit_transform fits the vectorizer in   *)
(* place                                                                   *)
LiteBuildFit ==
    /\ bpc = "fit"
    /\ vectorizer' = FitVectorizer(vectorizer, TextsOf(bArg.chunks))
    /\ bpc' = IF FitRaises(TextsOf(bArg.chunks)) THEN "done" ELSE "assign"
    /\ UNCHANGED <<config, aside, tfidf_matrix, index, chunks, disk, ret, bArg, bOld,
                   spc, sArg, sLocal>>

(* rag_system_lite.py 70, the assignment of the matrix *)
LiteBuildAssign ==
    /\ bpc = "assign"
    /\ tfidf_matrix' = Some(FitMatrix(TextsOf(bArg.chunks)))
    /\ bpc' = "done"
    /\ UNCHANGED <<config, aside, vectorizer, index, chunks, disk, ret, bArg, bOld,
                   spc, sArg, sLocal>>

(* rag_system.py 68-71: the embeddings, then a new index without vectors *)
DenseBuildNewIndex ==
    /\ bpc = "new_index"
    /\ IF bArg.encode_raises
       THEN index' = index /\ bpc' = "done"
       ELSE index' = Some(<<>>) /\ bpc' = "add"
    /\ UNCHANGED <<config, aside, vectorizer, tfidf_matrix, chunks, disk, ret, bArg, bOld,
                   spc, sArg, sLocal>>

(* rag_system.py 72: index.add(embeddings) *)
DenseBuildAdd ==
    /\ bpc = "add"
    /\ index' = Some([i \in 1..Len(bArg.chunks) |-> Embed(bArg.chunks[i].text)])
    /\ bpc' = "done"
    /\ UNCHANGED <<config, aside, vectorizer, tfidf_matrix, chunks, disk, ret, bArg, bOld,
                   spc, sArg, sLocal>>

(* the end of the search call *)
SearchReturns(arg, raised, results) ==
    /\ spc' = "done"
    /\ ret' = [NoRet EXCEPT !.op = "search", !.query = arg.query, !.top_k = arg.top_k,
                            !.raised = raised, !.results = results]

(* rag_system_lite.py 85 and rag_system.py 87: the empty-index test *)
SearchCheck(query, top_k, lib) ==
    /\ spc = "ready"
    /\ sArg' = [query |-> query, top_k |-> top_k, lib |-> lib]
    /\ IF (IF mode = "lexical" THEN LiteIndexEmpty(tfidf_matrix, chunks)
                               ELSE DenseIndexEmpty(index))
       THEN SearchReturns(sArg', FALSE, <<>>)
       ELSE spc' = (IF mode = "lexical" THEN "transform" ELSE "nearest") /\ ret' = ret
    /\ UNCHANGED <<config, aside, instance, disk, bpc, bArg, bOld, sLocal>>

(* rag_system_lite.py 90: the query vector, from the vectorizer as it is *)
LiteSearchTransform ==
    /\ spc = "transform"
    /\ IF TransformRaises(vectorizer)
       THEN SearchReturns(sArg, TRUE, <<>>) /\ sLocal' = sLocal
       ELSE /\ sLocal' = [sLocal EXCEPT !.qv = Transform(vectorizer, sArg.query)]
            /\ spc' = "cosine" /\ ret' = ret
    /\ UNCHANGED <<config, aside, instance, disk, bpc, bArg, bOld, sArg>>

(* rag_system_lite.py 93-96: similarities against the matrix as it is, and *)
(* the top indices                                                         *)
LiteSearchCosine ==
    /\ spc = "cosine"
    /\ IF CosineRaises(sLocal.qv, Val(tfidf_matrix))
       THEN SearchReturns(sArg, TRUE, <<>>) /\ sLocal' = sLocal
       ELSE LET similarities == cosine_similarity(sLocal.qv, Val(tfidf_matrix))
                top_indices == TopIndices(similarities, sArg.top_k, sArg.lib)
            IN  /\ sLocal' = [sLocal EXCEPT
                                !.top = [p \in 1..Len(top_indices) |->
                                            [idx |-> top_indices[p],
                                             score |-> similarities[top_indices[p]]]],
                                !.pos = 1]
                /\ spc' = "collect" /\ ret' = ret
    /\ UNCHANGED <<config, aside, instance, disk, bpc, bArg, bOld, sArg>>

(* rag_system.py 92-95: the neighbours in the index as it is *)
DenseSearchNearest ==
    /\ spc = "nearest"
    /\ LET k == Min2(sArg.top_k, Len(Val(index)))
           found == faiss_search(Val(index), Embed(sArg.query), k)
       IN  IF k <= 0 /\ sArg.lib
           THEN SearchReturns(sArg, TRUE, <<>>) /\ sLocal' = sLocal
           ELSE /\ sLocal' = [sLocal EXCEPT
                                !.top = [p \in 1..Len(found) |->
                                            [idx |-> found[p].idx, score |-> found[p].dist]],
                                !.pos = 1]
                /\ spc' = "collect" /\ ret' = ret
    /\ UNCHANGED <<config, aside, instance, disk, bpc, bArg, bOld, sArg>>

(* rag_system_lite.py 100-103 and rag_system.py 99-101: one turn of the    *)
(* loop, against the chunk list as it is                                   *)
SearchCollect ==
    /\ spc = "collect"
    /\ IF sLocal.pos > Len(sLocal.top)
       THEN SearchReturns(sArg, FALSE, sLocal.results) /\ sLocal' = sLocal
       ELSE LET t == sLocal.top[sLocal.pos]
            IN  /\ sLocal' = [sLocal EXCEPT
                                !.pos = @ + 1,
                                !.results = IF ValidIndex(t.idx, chunks)
                                            THEN Append(@, [idx |-> t.idx,
                                                            chunk |-> chunks[t.idx],
                                                            score |-> t.score])
                                            ELSE @]
                /\ spc' = spc /\ ret' = ret
    /\ UNCHANGED <<config, aside, instance, disk, bpc, bArg, bOld, sArg>>

BuildStep ==
    \/ \E cs \in Corpora, encode_raises \in (IF mode = "dense" THEN BOOLEAN ELSE {FALSE}) :
          BuildStore(cs, encode_raises)
    \/ LiteBuildFit
    \/ LiteBuildAssign
    \/ DenseBuildNewIndex
    \/ DenseBuildAdd

SearchStep ==
    \/ \E query \in Queries, top_k \in TopKs :
          \E lib \in LibChoices(top_k) : SearchCheck(query, top_k, lib)
    \/ LiteSearchTransform
    \/ LiteSearchCosine
    \/ DenseSearchNearest
    \/ SearchCollect

NextConc == BuildStep \/ SearchStep

SpecConc == InitConc /\ [][NextConc]_vars

-----------------------------------------------------------------------------
(* PDFProcessor.split_text_into_chunks, pdf_processor.py 85-133.  A text   *)
(* is a sequence of characters: a letter, a blank and a newline.           *)

MaxText == 8

SeparatorAllowance == 2

Newline == "\n"

Chars == {"a", " ", Newline}

IsSpace(c) == c \in {" ", Newline}

BlankLine == <<Newline, Newline>>

Texts == UNION {[1..n -> Chars] : n \in 0..MaxText}

ChunkSizes == {1, 4, MaxText}

(* last position of the run of whitespace that begins at i; i - 1 when     *)
(* t[i] is no whitespace                                                   *)
RECURSIVE WsEnd(_, _)
WsEnd(t, i) == IF i <= Len(t) /\ IsSpace(t[i]) THEN WsEnd(t, i + 1) ELSE i - 1

(* line 97, the pattern \n\s*\n: the end of its match that begins at i,    *)
(* which is the last newline of the whitespace run; 0 when none begins     *)
(* at i                                                                    *)
MatchEnd(t, i) ==
    IF t[i] # Newline THEN 0
    ELSE LET nl == {k \in (i + 1)..WsEnd(t, i) : t[k] = Newline}
         IN  IF nl = {} THEN 0 ELSE CHOOSE k \in nl : \A j \in nl : j <= k

(* re.split: the pieces between the matches, found from left to right *)
RECURSIVE SplitFrom(_, _, _)
SplitFrom(t, start, i) ==
    IF i > Len(t) THEN <<SubSeq(t, start, Len(t))>>
    ELSE LET e == MatchEnd(t, i)
         IN  IF e > 0 THEN <<SubSeq(t, start, i - 1)>> \o SplitFrom(t, e + 1, e + 1)
             ELSE SplitFrom(t, start, i + 1)

re_split(t) == SplitFrom(t, 1, 1)

(* str.strip() *)
strip(t) ==
    LET keep == {k \in 1..Len(t) : ~IsSpace(t[k])}
    IN  IF keep = {} THEN <<>>
        ELSE SubSeq(t, CHOOSE k \in keep : \A j \in keep : k <= j,
                       CHOOSE k \in keep : \A j \in keep : j <= k)

(* the locals of the loop before its first round *)
NoChunks == [current_chunk |-> <<>>, chunks |-> <<>>]

(* lines 115-120 and 126-131: the current chunk is stored if it has text *)
Flushed(loc) ==
    IF loc.current_chunk # <<>> THEN Append(loc.chunks, loc.current_chunk)
    ELSE loc.chunks

(* the round of the loop with the size test of line 108 short of the       *)
(* separator                                                               *)
ChunkStep_NoAllowance(loc, raw, chunk_size) ==
    LET para == strip(raw)
    IN  IF para = <<>> THEN loc
        ELSE IF Len(loc.current_chunk) + Len(para) <= chunk_size
        THEN [loc EXCEPT !.current_chunk =
                 IF @ # <<>> THEN @ \o BlankLine \o para ELSE para]
        ELSE [current_chunk |-> para, chunks |-> Flushed(loc)]

(* the round of the loop that forgets the chunk it closes *)
ChunkStep_NoFlush(loc, raw, chunk_size) ==
    LET para == strip(raw)
    IN  IF para = <<>> THEN loc
        ELSE IF Len(loc.current_chunk) + Len(para) + SeparatorAllowance <= chunk_size
        THEN [loc EXCEPT !.current_chunk =
                 IF @ # <<>> THEN @ \o BlankLine \o para ELSE para]
        ELSE [current_chunk |-> para, chunks |-> loc.chunks]

(* lines 102-123: one round of the loop, for the piece raw *)
ChunkStep(loc, raw, chunk_size) ==
    LET para == strip(raw)
    IN  IF para = <<>> THEN loc
        ELSE IF Len(loc.current_chunk) + Len(para) + SeparatorAllowance <= chunk_size
        THEN [loc EXCEPT !.current_chunk =
                 IF @ # <<>> THEN @ \o BlankLine \o para ELSE para]
        ELSE [current_chunk |-> para, chunks |-> Flushed(loc)]

RECURSIVE ChunkLoop(_, _, _)
ChunkLoop(loc, paragraphs, chunk_size) ==
    IF paragraphs = <<>> THEN loc
    ELSE ChunkLoop(ChunkStep(loc, Head(paragraphs), chunk_size),
                   Tail(paragraphs), chunk_size)

(* lines 96-133: the texts of the chunks, each with the metadata given *)
split_text_into_chunks(text, metadata, chunk_size) ==
    LET texts == Flushed(ChunkLoop(NoChunks, re_split(text), chunk_size))
    IN  [i \in 1..Len(texts) |-> [text |-> texts[i], metadata |-> metadata]]

(* metadata or {} for a call without metadata *)
NoMetadata == [page_number |-> 0, source |-> ""]

(* the index is not used by the processor *)
InitProcessor ==
    /\ mode = "lexical" /\ groq_client = FALSE
    /\ InitInstance
    /\ disk = EmptyDisk
    /\ ret = NoRet
    /\ InitProcs
    /\ call = NoCall
    /\ InitWebapp

InitChunk ==
    /\ InitProcessor
    /\ \E text \in Texts, chunk_size \in ChunkSizes :
          doc = [NoDocument EXCEPT !.op = "text", !.text = text,
                                   !.chunk_size = chunk_size]

SplitTextIntoChunks ==
    /\ doc.op = "text"
    /\ doc' = [doc EXCEPT !.op = "split_text_into_chunks",
                          !.chunks = split_text_into_chunks(doc.text, NoMetadata,
                                                            doc.chunk_size)]
    /\ UNCHANGED <<config, instance, disk, ret, procs, call, webapp>>

NextChunk == SplitTextIntoChunks

SpecChunk == InitChunk /\ [][NextChunk]_vars

-----------------------------------------------------------------------------
(* PDFProcessor.process_file, pdf_processor.py 26-83 and 135-193.  A file  *)
(* has an extension, can be opened or not, and holds pages (a PDF) or one  *)
(* text (a text file).  A page gives a text, or None, or its extraction    *)
(* raises.                                                                 *)

MaxPages == 2

Extensions == {".pdf", ".PDF", ".txt", ".docx", ""}

(* str.lower() of an extension *)
Lower(ext) == IF ext = ".PDF" THEN ".pdf" ELSE ext

PageTexts == {<<>>, <<" ", Newline>>, <<"a">>, <<" ", "a", Newline>>,
              <<"a", Newline, Newline, "a", "a">>}

NoPage == [state |-> "none", text |-> <<>>]

BrokenPage == [state |-> "error", text |-> <<>>]

Pages == {NoPage, BrokenPage} \cup {[state |-> "ok", text |-> t] : t \in PageTexts}

(* line 43 and line 71: if text and text.strip() *)
HasText(page) == page.state = "ok" /\ strip(page.text) # <<>>

(* lines 36-55; an exception of open or of extract_text gives [] *)
extract_text_from_pdf(readable, pages) ==
    IF ~readable \/ \E n \in 1..Len(pages) : pages[n].state = "error" THEN <<>>
    ELSE LET kept == SelectSeq([n \in 1..Len(pages) |-> [n |-> n, page |-> pages[n]]],
                               LAMBDA x : HasText(x.page))
         IN  [i \in 1..Len(kept) |->
                 [page_number |-> kept[i].n, text |-> strip(kept[i].page.text)]]

(* the reading of lines 67-83 with the exception of open let through *)
extract_text_from_txt_Uncaught(readable, content) ==
    IF ~readable \/ content.state = "error" THEN [raised |-> TRUE, pages |-> <<>>]
    ELSE IF HasText(content)
    THEN [raised |-> FALSE, pages |-> <<[page_number |-> 1, text |-> strip(content.text)]>>]
    ELSE [raised |-> FALSE, pages |-> <<>>]

(* lines 67-83; an exception of open or of read gives [] *)
extract_text_from_txt(readable, content) ==
    IF ~readable \/ content.state = "error" THEN [raised |-> FALSE, pages |-> <<>>]
    ELSE IF HasText(content)
    THEN [raised |-> FALSE, pages |-> <<[page_number |-> 1, text |-> strip(content.text)]>>]
    ELSE [raised |-> FALSE, pages |-> <<>>]

(* lines 151-158 and 181-187: the chunks of every page, in page order *)
RECURSIVE ChunksOfPages(_, _)
ChunksOfPages(pages_data, chunk_size) ==
    IF pages_data = <<>> THEN <<>>
    ELSE split_text_into_chunks(Head(pages_data).text,
                                [page_number |-> Head(pages_data).page_number,
                                 source |-> "file"],
                                chunk_size)
         \o ChunksOfPages(Tail(pages_data), chunk_size)

(* lines 173-193 *)
process_file(ext, readable, pages, content, chunk_size) ==
    LET file_ext == Lower(ext)
    IN  IF file_ext = ".pdf"
        THEN [raised |-> FALSE,
              chunks |-> ChunksOfPages(extract_text_from_pdf(readable, pages), chunk_size)]
        ELSE IF file_ext = ".txt"
        THEN LET read == extract_text_from_txt(readable, content)
             IN  [raised |-> read.raised,
                  chunks |-> ChunksOfPages(read.pages, chunk_size)]
        ELSE [raised |-> FALSE, chunks |-> <<>>]

(* the content of a text file of the model is in the first page *)
ContentOf(d) == IF d.pages = <<>> THEN [state |-> "ok", text |-> <<>>] ELSE d.pages[1]

InitFile ==
    /\ InitProcessor
    /\ \E ext \in Extensions, readable \in BOOLEAN, chunk_size \in ChunkSizes,
          pages \in SeqsUpTo(Pages, MaxPages) :
          /\ (Lower(ext) = ".txt" => Len(pages) <= 1)
          /\ doc = [NoDocument EXCEPT !.op = "file", !.ext = ext,
                                      !.readable = readable, !.pages = pages,
                                      !.chunk_size = chunk_size]

ProcessFile ==
    /\ doc.op = "file"
    /\ LET done == process_file(doc.ext, doc.readable, doc.pages, ContentOf(doc),
                                doc.chunk_size)
       IN  doc' = [doc EXCEPT !.op = "process_file", !.raised = done.raised,
                              !.chunks = done.chunks]
    /\ UNCHANGED <<config, instance, disk, ret, procs, call, webapp>>

NextFile == ProcessFile

SpecFile == InitFile /\ [][NextFile]_vars

-----------------------------------------------------------------------------
(* RAGSystemLite.generate_answer with the request to the delegate in       *)
(* flight (rag_system_lite.py 158-172, groq_client.py 125-142).  The       *)
(* client is built with its defaults (groq_client.py 26) and the request   *)
(* passes no timeout (lines 127-135), so the request ends by a reply, by   *)
(* an exception, or by the timeout of the client library, which raises     *)
(* too; the except clause of line 140 takes every exception.               *)

InitDelegate ==
    /\ mode = "lexical" /\ groq_client = TRUE
    /\ \E cs \in {c \in Corpora : Buildable(c)} :
          /\ vectorizer = BuiltInstance(cs).vectorizer
          /\ tfidf_matrix = BuiltInstance(cs).tfidf_matrix
          /\ index = None
          /\ chunks = cs
    /\ disk = EmptyDisk
    /\ ret = NoRet
    /\ InitProcs
    /\ InitAside

(* the candidates that go to the delegate: lines 142-149 *)
NeedsDelegate(results, threshold) ==
    /\ results # <<>>
    /\ ~SimilarityFails(results[1].score, threshold)

(* lines 119-160: search and the threshold test; the call returns here     *)
(* when there is nothing to refine, and else sends the request             *)
GenerateAnswerBegins ==
    \E query \in Queries, top_k \in TopKs, threshold \in SimilarityThresholds :
      \E lib \in LibChoices(top_k) :
        LET found == SearchNow(query, top_k, lib)
        IN  /\ Taken /\ call.pc = Idle
            /\ IF ~found.raised /\ NeedsDelegate(found.results, threshold)
               THEN /\ call' = [pc |-> "requested", query |-> query, top_k |-> top_k,
                                threshold |-> threshold, results |-> found.results,
                                outcome |-> ""]
                    /\ ret' = ret
               ELSE /\ call' = call
                    /\ ret' = [NoRet EXCEPT !.op = "generate_answer", !.query = query,
                                !.top_k = top_k, !.threshold = threshold,
                                !.raised = found.raised, !.results = found.results,
                                !.answer = IF found.raised THEN Absent("")
                                           ELSE LiteAnswer(found.results, threshold,
                                                           TRUE, "")]
            /\ UNCHANGED <<config, doc, instance, disk, procs, webapp>>

(* lines 127-138: the delegate answers, with a text or with none, or the   *)
(* request raises                                                          *)
DelegateReplies ==
    \E outcome \in DelegateOutcomes :
        /\ call.pc = "requested"
        /\ call' = [call EXCEPT !.pc = "replied", !.outcome = outcome]
        /\ UNCHANGED <<config, doc, instance, disk, ret, procs, webapp>>

(* the delegate stays silent and the client library ends the request with *)
(* its timeout exception                                                   *)
DelegateTimesOut ==
    /\ call.pc = "requested"
    /\ call' = [call EXCEPT !.pc = "replied", !.outcome = "timeout"]
    /\ UNCHANGED <<config, doc, instance, disk, ret, procs, webapp>>

(* groq_client.py 137-193 and rag_system_lite.py 165-206: the rest of the  *)
(* call once the request has ended                                         *)
GenerateAnswerReturns ==
    /\ call.pc = "replied"
    /\ ret' = [NoRet EXCEPT !.op = "generate_answer", !.query = call.query,
                            !.top_k = call.top_k, !.threshold = call.threshold,
                            !.outcome = call.outcome, !.results = call.results,
                            !.answer = LiteAnswer(call.results, call.threshold,
                                                  TRUE, call.outcome)]
    /\ call' = NoCall
    /\ UNCHANGED <<config, doc, instance, disk, procs, webapp>>

NextDelegate ==
    \/ GenerateAnswerBegins
    \/ DelegateReplies
    \/ DelegateTimesOut
    \/ GenerateAnswerReturns
    \/ take_result

(* the request that stays unanswered is ended by the timeout, and the      *)
(* thread of the call goes on                                              *)
SpecDelegate ==
    /\ InitDelegate /\ [][NextDelegate]_vars
    /\ WF_vars(DelegateTimesOut)
    /\ WF_vars(GenerateAnswerReturns)

-----------------------------------------------------------------------------
(* Properties of generate_answer and search *)

(* the index of the mode is unset *)
IndexUnset == IF mode = "lexical" THEN IsNone(tfidf_matrix) ELSE IsNone(index)

(* the instance is as a successful build_index(chunks) leaves it *)
Built ==
    /\ chunks # <<>>
    /\ IF mode = "lexical"
       THEN /\ ~FitRaises(TextsOf(chunks))
            /\ tfidf_matrix = Some(FitMatrix(TextsOf(chunks)))
            /\ vectorizer = FitVectorizer(UnfittedVectorizer, TextsOf(chunks))
       ELSE index = Some([i \in 1..Len(chunks) |-> Embed(chunks[i].text)])

Answered == ret.op = "generate_answer" /\ ~ret.raised

BestFails ==
    /\ ret.results # <<>>
    /\ IF mode = "lexical" THEN ret.results[1].score < ret.threshold
                           ELSE ret.results[1].score > ret.threshold

Passes(r) ==
    IF mode = "lexical" THEN r.score >= ret.threshold ELSE r.score <= ret.threshold

(* C3: generate_answer returns confidence none, with no answer and no      *)
(* sources, exactly when the corpus is empty or the index unset; on a      *)
(* non-empty corpus with an index every call returns low, medium or high.  *)
C3_NoneIffEmptyOrUnset ==
    ret.op = "generate_answer" =>
        /\ (ret.answer.confidence = "none") <=> (ret.raised = FALSE /\ (chunks = <<>> \/ IndexUnset))
        /\ ret.answer.confidence = "none" => IsNone(ret.answer.answer) /\ ret.answer.sources = <<>>
        /\ (chunks # <<>> /\ ~IndexUnset) =>
               ~ret.raised /\ ret.answer.confidence \in {"low", "medium", "high"}

(* C4: the confidence is low exactly when search found a candidate and the *)
(* first one fails the threshold (similarity below it, distance above it); *)
(* then there is no answer and no source; every other call that found a    *)
(* candidate returns an answer.                                            *)
C4_LowIffBestFails ==
    Answered =>
        /\ (ret.answer.confidence = "low") <=> BestFails
        /\ ret.answer.confidence = "low" =>
               IsNone(ret.answer.answer) /\ ret.answer.sources = <<>>
        /\ (ret.results # <<>> /\ ~BestFails) => ~IsNone(ret.answer.answer)

(* a call whose best candidate fails although lower-ranked ones were found *)
C4_Witness ==
    /\ Answered /\ ret.answer.confidence = "low" /\ Len(ret.results) >= 2

(* the delegate is not configured, or its call raised or gave nothing *)
DelegateFailed == ~groq_client \/ ret.outcome \in {"exception", "empty"}

PassingTexts ==
    LET passing == SelectSeq(ret.results, Passes)
        two == SubSeq(passing, 1, Min2(2, Len(passing)))
    IN  [i \in 1..Len(two) |-> two[i].chunk.text]

(* C5: when the best candidate passes and the delegate is unavailable or   *)
(* fails, the answer is the texts of the first two passing candidates, in  *)
(* rank order, joined by a blank line, and refined is false.               *)
C5_FallbackIsTopTwoPassing ==
    (Answered /\ mode = "lexical" /\ ret.results # <<>> /\ ~BestFails /\ DelegateFailed) =>
        /\ ret.answer.answer = Some(Join("\n\n", PassingTexts))
        /\ ret.answer.refined = Some(FALSE)

(* a failed delegate call with three candidates that all pass *)
C5_Witness ==
    /\ Answered /\ mode = "lexical" /\ groq_client /\ ret.outcome = "exception"
    /\ Len(ret.results) = 3 /\ \A i \in 1..3 : Passes(ret.results[i])
    /\ Len(Val(ret.answer.answer)) = 5

(* C6: the sources of an answer are the first three candidates of search,  *)
(* all of them when there are fewer, however many pass the threshold.      *)
C6_SourcesAreTopThreeRaw ==
    (Answered /\ ret.top_k >= 1 /\ ~IsNone(ret.answer.answer)) =>
        /\ Len(ret.answer.sources) = Min2(3, Len(ret.results))
        /\ \A i \in 1..Len(ret.answer.sources) :
               ret.answer.sources[i].page = ret.results[i].chunk.metadata.page_number

SharesTerms(query, text) == WordsOf(query) \cap WordsOf(text) # {}

(* C7: a corpus of one chunk is indexed by the lexical build_index, and a  *)
(* query sharing terms with the chunk, asked with threshold 0.05, gets an  *)
(* answer citing the chunk's page with a confidence other than none.       *)
C7_SingleChunkCorpus ==
    (mode = "lexical" /\ Len(chunks) = 1) =>
        /\ ret.op = "build_index" => ~ret.raised
        /\ (ret.op = "generate_answer" /\ ret.threshold = 5
              /\ SharesTerms(ret.query, chunks[1].text)) =>
               /\ ~ret.raised
               /\ ret.answer.confidence # "none"
               /\ \E i \in 1..Len(ret.answer.sources) :
                      ret.answer.sources[i].page = chunks[1].metadata.page_number

Searched == ret.op = "search" /\ ~ret.raised

ReturnedIdx == {ret.results[p].idx : p \in 1..Len(ret.results)}

(* the similarity of every chunk of a built lexical index to the query *)
AllSimilarities == cosine_similarity(Transform(vectorizer, ret.query), Val(tfidf_matrix))

(* C8: lexical search for top_k >= 1 returns the top_k best chunks (none   *)
(* left out is better than one returned) by non-increasing similarity,     *)
(* among equal similarities the earlier chunk first; dense search returns  *)
(* its results by non-decreasing distance.                                 *)
C8_RankedWithTiesInCorpusOrder ==
    (Searched /\ Built /\ ret.top_k >= 1) =>
        /\ Len(ret.results) = Min2(ret.top_k, Len(chunks))
        /\ \A p, q \in 1..Len(ret.results) :
               p < q =>
                   IF mode = "lexical"
                   THEN /\ ret.results[p].score >= ret.results[q].score
                        /\ ret.results[p].score = ret.results[q].score =>
                               ret.results[p].idx < ret.results[q].idx
                   ELSE ret.results[p].score <= ret.results[q].score
        /\ mode = "lexical" =>
               \A i \in (1..Len(chunks)) \ ReturnedIdx, p \in 1..Len(ret.results) :
                   AllSimilarities[i] <= ret.results[p].score

(* C9: on a built index search returns at most top_k results and does not  *)
(* raise, for every query and every top_k from 0 up.                       *)
C9_AtMostTopK ==
    (ret.op = "search" /\ Built) => ~ret.raised /\ Len(ret.results) <= ret.top_k

(* C10: on an index built from n chunks, a search with top_k above n       *)
(* returns n results, every chunk of the corpus once.                      *)
C10_AllChunksWhenFewerThanK ==
    (ret.op = "search" /\ Built /\ Len(chunks) < ret.top_k) =>
        /\ ~ret.raised
        /\ Len(ret.results) = Len(chunks)
        /\ ReturnedIdx = 1..Len(chunks)
        /\ \A p \in 1..Len(ret.results) :
               ret.results[p].chunk = chunks[ret.results[p].idx]

(* a search for more chunks than the two of a built corpus *)
C10_Witness ==
    /\ ret.op = "search" /\ Built /\ Len(chunks) = 2 /\ ret.top_k = 3
    /\ Len(ret.results) = 2

-----------------------------------------------------------------------------
(* Properties of the index and its chunk sequence *)

(* number of rows of the matrix or vectors of the index; 0 when unset *)
IndexRows ==
    IF mode = "lexical"
    THEN (IF IsNone(tfidf_matrix) THEN 0 ELSE Len(Val(tfidf_matrix).rows))
    ELSE (IF IsNone(index) THEN 0 ELSE Len(Val(index)))

(* C1: after any build_index, save_index and load_index calls, failed ones *)
(* included, the chunk sequence and the index have the same cardinality.   *)
C1_EqualCardinality == IndexRows = Len(chunks)

-----------------------------------------------------------------------------
(* Properties of a search that runs beside a rebuild *)

SearchOn(inst, arg) ==
    IF mode = "lexical"
    THEN LiteSearch(inst.vectorizer, inst.tfidf_matrix, inst.chunks,
                    arg.query, arg.top_k, arg.lib)
    ELSE DenseSearch(inst.index, inst.chunks, arg.query, arg.top_k, arg.lib)

Returned == [raised |-> ret.raised, results |-> ret.results]

(* the rebuild, if it has begun, is one that succeeds when run alone *)
RebuildSucceeds == Buildable(bArg.chunks) /\ ~bArg.encode_raises

(* C2: a search for top_k >= 1 beside a rebuild returns what it returns on *)
(* the complete old instance or on the complete new one.                   *)
C2_SearchSeesOldOrNew ==
    (spc = "done" /\ sArg.top_k >= 1 /\ bpc # "ready" /\ RebuildSucceeds) =>
        \/ Returned = SearchOn(bOld, sArg)
        \/ Returned = SearchOn(BuiltInstance(bArg.chunks), sArg)

-----------------------------------------------------------------------------
(* Properties of the empty index and of snapshots *)

(* C11: a search on an instance whose index is unset (never built, built   *)
(* from no chunks, loaded from the snapshot of an unbuilt instance)        *)
(* returns the empty sequence and does not raise.                          *)
C11_UnsetIndexGivesNoResults ==
    (ret.op = "search" /\ IndexUnset) => ~ret.raised /\ ret.results = <<>>

(* a search on an unset index while the snapshot of an unbuilt instance is *)
(* in the directory                                                        *)
C11_Witness ==
    /\ ret.op = "search" /\ IndexUnset /\ ret.results = <<>>
    /\ Readable(disk.chunks_pkl) /\ disk.chunks_pkl.data = <<>>

(* C12: after build_index of no chunks, whatever the instance held, the    *)
(* index is unset and every search returns the empty sequence.             *)
C12_EmptyBuildLeavesIndexUnset ==
    (ret.op = "build_index" /\ ret.arg_len = 0) =>
        /\ IndexUnset
        /\ \A query \in Queries, top_k \in TopKs :
              \A lib \in LibChoices(top_k) :
                 SearchNow(query, top_k, lib) = [raised |-> FALSE, results |-> <<>>]

(* every file of the snapshot can be read *)
SnapshotReadable ==
    IF mode = "lexical"
    THEN /\ Readable(disk.vectorizer_pkl) /\ Readable(disk.tfidf_matrix_pkl)
         /\ Readable(disk.chunks_pkl)
    ELSE Readable(disk.faiss_index) /\ Readable(disk.chunks_pkl)

(* rows of the matrix or index of the snapshot *)
SnapshotRows ==
    LET stored == IF mode = "lexical" THEN disk.tfidf_matrix_pkl.data
                  ELSE disk.faiss_index.data
    IN  IF IsNone(stored) THEN 0
        ELSE IF mode = "lexical" THEN Len(Val(stored).rows) ELSE Len(Val(stored))

SnapshotConsistent ==
    SnapshotReadable /\ SnapshotRows = Len(disk.chunks_pkl.data)

(* C13: load_index returns true exactly when every file of the snapshot    *)
(* was read and the index and the chunk sequence in it have the same       *)
(* cardinality.                                                            *)
C13_LoadFailsUnlessConsistent ==
    ret.op = "load_index" => (ret.ok <=> SnapshotConsistent)

(* inst is as a successful build_index leaves an instance *)
IsBuilt(inst) ==
    /\ Buildable(inst.chunks)
    /\ inst = BuiltInstance(inst.chunks)

(* C14: save_index of a built instance and load_index into a new one: the  *)
(* load succeeds and every search gives the same ranked results on both.   *)
C14_RoundTripKeepsRankings ==
    (ret.op = "load_index" /\ IsBuilt(bOld)) =>
        /\ ret.ok
        /\ \A query \in Queries, top_k \in TopKs, lib \in BOOLEAN :
              SearchNow(query, top_k, lib)
                 = SearchOn(bOld, [query |-> query, top_k |-> top_k, lib |-> lib])

(* a new instance has loaded the snapshot of an instance built from more   *)
(* than one chunk                                                          *)
C14_Witness ==
    /\ ret.op = "load_index" /\ ret.ok /\ IsBuilt(bOld) /\ Len(bOld.chunks) >= 2
    /\ Len(chunks) >= 2

(* C15: no operation lets an exception reach its caller.                   *)
C15_NoOperationRaises == ~ret.raised

(* the fields of an Answer that the caller sees *)
Visible(a) == [answer |-> a.answer, sources |-> a.sources,
               confidence |-> a.confidence, refined |-> a.refined]

(* C20: with a configured delegate whose call fails, generate_answer (for  *)
(* top_k >= 1) returns the Answer it returns with no delegate configured.  *)
C20_FailedDelegateAsAbsent ==
    (Answered /\ ret.top_k >= 1 /\ groq_client /\ ret.outcome \in {"exception", "empty"}) =>
        Visible(ret.answer)
           = Visible(LiteAnswer(ret.results, ret.threshold, FALSE, "unavailable"))

-----------------------------------------------------------------------------
(* Properties of the chunker and of process_file *)

Chunked == doc.op = "split_text_into_chunks"

(* the paragraphs of a text: its pieces between blank lines, trimmed, the  *)
(* empty ones left out                                                     *)
Paragraphs(text) ==
    LET pieces == re_split(text)
    IN  SelectSeq([i \in 1..Len(pieces) |-> strip(pieces[i])], LAMBDA x : x # <<>>)

(* C16: a chunk is no longer than chunk_size unless it is one paragraph    *)
(* that is; such a paragraph is a chunk of its own, whole.                 *)
C16_ChunkWithinSizeUnlessOneParagraph ==
    Chunked =>
        LET paras == Paragraphs(doc.text)
            long == {j \in 1..Len(paras) : Len(paras[j]) > doc.chunk_size}
        IN  /\ \A i \in 1..Len(doc.chunks) :
                  \/ Len(doc.chunks[i].text) <= doc.chunk_size
                  \/ \E j \in long : doc.chunks[i].text = paras[j]
            /\ \A j \in long : \E i \in 1..Len(doc.chunks) : doc.chunks[i].text = paras[j]
            /\ Cardinality({i \in 1..Len(doc.chunks) :
                                Len(doc.chunks[i].text) > doc.chunk_size})
                   = Cardinality(long)

(* a paragraph above the size became a chunk beside another chunk *)
C16_Witness ==
    /\ Chunked /\ Len(doc.chunks) >= 2
    /\ \E i \in 1..Len(doc.chunks) : Len(doc.chunks[i].text) > doc.chunk_size
    /\ \E i \in 1..Len(doc.chunks) : Len(doc.chunks[i].text) <= doc.chunk_size

(* the texts joined by the blank line the chunker puts between paragraphs *)
RECURSIVE JoinedByBlankLine(_)
JoinedByBlankLine(texts) ==
    IF texts = <<>> THEN <<>>
    ELSE IF Len(texts) = 1 THEN texts[1]
    ELSE texts[1] \o BlankLine \o JoinedByBlankLine(Tail(texts))

(* C17: no chunk is empty, and the chunk texts joined by a blank line and  *)
(* split again at blank lines are the paragraphs of the input, in order.   *)
C17_ChunkingIsLossless ==
    Chunked =>
        LET texts == [i \in 1..Len(doc.chunks) |-> doc.chunks[i].text]
            again == SelectSeq(re_split(JoinedByBlankLine(texts)), LAMBDA x : x # <<>>)
        IN  /\ \A i \in 1..Len(texts) : texts[i] # <<>>
            /\ again = Paragraphs(doc.text)

(* three paragraphs, two of them in one chunk *)
C17_Witness ==
    /\ Chunked /\ Len(Paragraphs(doc.text)) = 3 /\ Len(doc.chunks) = 2

Processed == doc.op = "process_file"

(* the extension is one that process_file knows *)
Supported == Lower(doc.ext) \in {".pdf", ".txt"}

(* the file cannot be opened or a page cannot be extracted *)
Failing ==
    ~doc.readable \/ \E n \in 1..Len(doc.pages) : doc.pages[n].state = "error"

(* C18: process_file does not raise; it returns no chunk for an extension  *)
(* it does not know, a file it cannot open or an extraction that fails,    *)
(* and else chunks of the pages that have text after trimming, and of all  *)
(* of them; the text of a text file is page 1.                             *)
C18_ProcessFileNeverRaises ==
    Processed =>
        LET numbers == {doc.chunks[i].metadata.page_number : i \in 1..Len(doc.chunks)}
            with_text == {n \in 1..Len(doc.pages) :
                            doc.pages[n].state = "ok"
                            /\ \E k \in 1..Len(doc.pages[n].text) :
                                   ~IsSpace(doc.pages[n].text[k])}
        IN  /\ ~doc.raised
            /\ (~Supported \/ Failing) => doc.chunks = <<>>
            /\ (Supported /\ ~Failing) => numbers = with_text
            /\ Lower(doc.ext) = ".txt" => numbers \subseteq {1}

(* a PDF whose first page has no text and whose second page has *)
C18_Witness ==
    /\ Processed /\ Lower(doc.ext) = ".pdf" /\ Len(doc.pages) = 2
    /\ doc.chunks # <<>>
    /\ \A i \in 1..Len(doc.chunks) : doc.chunks[i].metadata.page_number = 2

-----------------------------------------------------------------------------
(* Properties of the request to the delegate *)

-----------------------------------------------------------------------------
(* Properties of the delegate's context and of a failed load *)

(* the block the context has for a candidate at place i *)
BlockOf(r, i) == [doc |-> i, page |-> r.chunk.metadata.page_number,
                  text |-> r.chunk.text]

(* C21: generate_answer calls the delegate at most once, and only when the *)
(* best candidate passed, never for an answer of confidence none or low;   *)
(* the context holds candidates that pass the threshold only, in rank      *)
(* order, each with its page number.                                       *)
C21_DelegateOnceWithPassingContext ==
    Answered =>
        LET passing == SelectSeq(ret.results, Passes)
            a == ret.answer
        IN  /\ a.delegate_calls <= 1
            /\ a.delegate_calls = 1 =>
                   /\ ret.results # <<>> /\ ~BestFails
                   /\ a.confidence \notin {"none", "low"}
                   /\ a.context # <<>>
            /\ a.delegate_calls = 0 => a.context = <<>>
            /\ Len(a.context) <= Len(passing)
            /\ \A i \in 1..Len(a.context) : a.context[i] = BlockOf(passing[i], i)

(* the delegate was called with two of three candidates in its context *)
C21_Witness ==
    /\ Answered /\ ret.answer.delegate_calls = 1
    /\ Len(ret.results) = 3 /\ Len(ret.answer.context) = 2

(* C22: a load_index that returns False leaves vectorizer, matrix or index *)
(* and chunk sequence as they were before the call.                        *)
C22_FailedLoadChangesNothing ==
    (ret.op = "load_index" /\ ~ret.ok) => CurrentInstance = bOld

-----------------------------------------------------------------------------
(* The web application: app.py.  Time is counted in minutes; a handler     *)
(* runs at one instant.  A message is the sequence of its words and        *)
(* spaces: "sangdam" "won" stands for the operator keyword of line 43,     *)
(* "jongryo" for the end command, "hours" for an FAQ keyword of line 34.   *)

SESSION_TIMEOUT_MINUTES == 10

MaxNow == 22

MaxSessions == 2

MaxReplies == 2

rag == <<config, instance, disk, ret, procs, doc, call>>

(* the time that passes between two requests *)
Delays == {SESSION_TIMEOUT_MINUTES, SESSION_TIMEOUT_MINUTES + 1}

(* app.py 463: the end commands *)
EndCommands == {<<"sangdam", "jongryo">>, <<"sangdam", " ", "jongryo">>,
                <<"jongryo">>}

(* app.py 43 *)
ADMIN_KEYWORDS == <<(<<"sangdam", "won">>)>>

(* app.py 33-41: two of the keys, in the order of the dict *)
FAQ_DATA == <<(<<"hours">>), (<<"sangdam">>)>>

Messages == {<<" ">>, <<"x">>, <<"X", " ", "hours">>,
             <<" ", "jongryo">>, <<"sangdam", " ", "jongryo">>,
             <<"sangdam", "won">>, <<"sangdam", "won", " ", "jongryo">>}

(* keyword in message, of str *)
Contains(keyword, message) ==
    \E i \in 1..(Len(message) - Len(keyword) + 1) :
        SubSeq(message, i, i + Len(keyword) - 1) = keyword

(* str.lower: the words of the keywords have no cased letter *)
lower(message) ==
    [k \in 1..Len(message) |-> IF message[k] = "X" THEN "x" ELSE message[k]]

(* app.py 410-416 *)
find_faq_answer(message) ==
    LET message_lower == SelectSeq(lower(message), LAMBDA c : c # " ")
        hits == {k \in 1..Len(FAQ_DATA) : Contains(FAQ_DATA[k], message_lower)}
    IN  IF hits = {} THEN None
        ELSE Some(CHOOSE k \in hits : \A j \in hits : k <= j)

(* the stores that the session functions read and write, as one value *)
Store == [active_consultations |-> active_consultations,
          summaries |-> summaries, notices |-> notices]

(* the number of sessions started so far, when requests run one by one *)
SessionsStarted ==
    Len(summaries) + Cardinality({u \in Users : active_consultations[u] # None})

(* app.py 215-220 *)
start_consultation_session(s, user_id, t) ==
    [s EXCEPT !.active_consultations[user_id] =
        Some([start_time |-> t, last_activity |-> t,
              session |-> Len(s.summaries) + 1 +
                  Cardinality({u \in Users : s.active_consultations[u] # None})])]

(* app.py 222-225 *)
update_session_activity(s, user_id, t) ==
    IF s.active_consultations[user_id] = None THEN s
    ELSE [s EXCEPT !.active_consultations[user_id] =
             Some([Val(@) EXCEPT !.last_activity = t])]

(* app.py 242-254: the summary record of line 251 and the notice of 254 *)
end_consultation_session(s, user_id, reason) ==
    IF s.active_consultations[user_id] = None THEN s
    ELSE LET session_info == Val(s.active_consultations[user_id])
             record == [user |-> user_id, session |-> session_info.session,
                        reason |-> reason]
         IN  [active_consultations |->
                  [s.active_consultations EXCEPT ![user_id] = None],
              summaries |-> Append(s.summaries, record),
              notices |-> Append(s.notices, record)]

(* the test of line 237 that never finds a session timed out *)
TimedOut_Never(last_activity, t) == FALSE

(* app.py 234-237: kst_now() - last_activity > timeout *)
TimedOut(last_activity, t) == t - last_activity > SESSION_TIMEOUT_MINUTES

(* app.py 228-240: the result and the stores after the call *)
is_session_active(s, user_id, t) ==
    IF s.active_consultations[user_id] = None
    THEN [active |-> FALSE, store |-> s]
    ELSE IF TimedOut(Val(s.active_consultations[user_id]).last_activity, t)
         THEN [active |-> FALSE,
               store |-> end_consultation_session(s, user_id, "timeout")]
         ELSE [active |-> TRUE, store |-> s]

(* the reason of the end that a handler made, "" when it made none *)
EndedBy(s) ==
    IF Len(s.summaries) > Len(summaries)
    THEN s.summaries[Len(s.summaries)].reason ELSE ""

(* app.py 344-363: topic_ids after the call; a user without a topic gets *)
(* one when the request to Telegram succeeds                             *)
create_telegram_topic(user_id) ==
    IF topic_ids[user_id] # None THEN {topic_ids}
    ELSE {topic_ids, [topic_ids EXCEPT ![user_id] = Some(user_id)]}

(* the branch of chat that the operator-keyword test comes first in *)
ChatRoute_KeywordFirst(user_message, active) ==
    IF user_message = <<>> THEN "empty"
    ELSE IF user_message \in EndCommands
         THEN (IF active THEN "session_end" ELSE "error")
    ELSE IF \E k \in 1..Len(ADMIN_KEYWORDS) :
                Contains(ADMIN_KEYWORDS[k], user_message)
         THEN "session_start"
    ELSE IF active THEN "consultation_active"
    ELSE IF find_faq_answer(user_message) # None THEN "faq"
    ELSE "default"

(* app.py 465-532: the branch that chat takes *)
ChatRoute(user_message, active) ==
    IF user_message = <<>> THEN "empty"
    ELSE IF user_message \in EndCommands
         THEN (IF active THEN "session_end" ELSE "error")
    ELSE IF active THEN "consultation_active"
    ELSE IF \E k \in 1..Len(ADMIN_KEYWORDS) :
                Contains(ADMIN_KEYWORDS[k], user_message)
         THEN "session_start"
    ELSE IF find_faq_answer(user_message) # None THEN "faq"
    ELSE "default"

(* app.py 458-532 *)
chat(U, M) ==
    \E user_id \in U, message \in M :
        LET user_message == strip(message)
            checked == IF user_message = <<>>
                       THEN [active |-> FALSE, store |-> Store]
                       ELSE is_session_active(Store, user_id, now)
            type == ChatRoute(user_message, checked.active)
            s == CASE type = "session_end" ->
                         end_consultation_session(checked.store, user_id, "manual")
                   [] type = "consultation_active" ->
                         update_session_activity(checked.store, user_id, now)
                   [] type = "session_start" ->
                         start_consultation_session(checked.store, user_id, now)
                   [] OTHER -> checked.store
            notified == type \in {"consultation_active", "session_start"}
        IN  /\ type = "session_start" => SessionsStarted < MaxSessions
            /\ active_consultations' = s.active_consultations
            /\ summaries' = s.summaries
            /\ notices' = s.notices
            /\ topic_ids' \in (IF notified THEN create_telegram_topic(user_id)
                             ELSE {topic_ids})
            /\ resp' = [NoResp EXCEPT
                           !.endpoint = "chat", !.user = user_id,
                           !.message = message,
                           !.before = active_consultations[user_id],
                           !.status = IF type = "empty" THEN 400 ELSE 200,
                           !.type = type,
                           !.forwarded = (type = "consultation_active"),
                           !.started = (type = "session_start"),
                           !.ended = EndedBy(s)]
            /\ UNCHANGED <<rag, now, admin_responses, accepted, delivered, threads>>

(* the files of an upload: none, one without a name, and names *)
Uploads == {None, Some(<<>>), Some(<<"photo", ".", "PNG">>),
            Some(<<"notes", ".", "txt">>), Some(<<"noext">>)}

(* app.py 29 *)
ALLOWED_EXTENSIONS == {"png", "jpg", "jpeg", "gif", "mp4", "mov", "avi"}

(* str.lower of an extension *)
lower_ext(ext) == IF ext = "PNG" THEN "png" ELSE ext

(* app.py 86-88 *)
allowed_file(filename) ==
    /\ \E k \in 1..Len(filename) : filename[k] = "."
    /\ lower_ext(filename[Len(filename)]) \in ALLOWED_EXTENSIONS

(* app.py 534-582: the file of an active session is stored and sent on   *)
(* (200), or storing it raises (500)                                     *)
upload_file(U) ==
    \E user_id \in U, file \in Uploads :
        LET refused == file = None \/ Val(file) = <<>> \/ ~allowed_file(Val(file))
            checked == IF refused THEN [active |-> FALSE, store |-> Store]
                       ELSE is_session_active(Store, user_id, now)
            outcomes == IF refused THEN {400}
                        ELSE IF ~checked.active THEN {403} ELSE {500, 200}
        IN  \E status \in outcomes :
            LET s == IF status = 200
                     THEN update_session_activity(checked.store, user_id, now)
                     ELSE checked.store
            IN  /\ active_consultations' = s.active_consultations
                /\ summaries' = s.summaries
                /\ notices' = s.notices
                /\ topic_ids' \in (IF status = 200
                                 THEN create_telegram_topic(user_id)
                                 ELSE {topic_ids})
                /\ resp' = [NoResp EXCEPT
                               !.endpoint = "upload", !.user = user_id,
                               !.before = active_consultations[user_id],
                               !.status = status,
                               !.forwarded = (status = 200),
                               !.ended = EndedBy(s)]
                /\ UNCHANGED <<rag, now, admin_responses, accepted, delivered,
                               threads>>

(* list.pop(0) with the last element for the first *)
pop0_Last(list) ==
    [value |-> list[Len(list)], list |-> SubSeq(list, 1, Len(list) - 1)]

(* app.py 590: list.pop(0), the element taken and the list left *)
pop0(list) == [value |-> Head(list), list |-> Tail(list)]

(* app.py 584-605 *)
check_reply(U) ==
    \E user_id \in U :
        LET has_reply == admin_responses[user_id] # <<>>
            popped == pop0(admin_responses[user_id])
            checked == IF has_reply THEN is_session_active(Store, user_id, now)
                       ELSE [active |-> FALSE, store |-> Store]
            s == IF checked.active
                 THEN update_session_activity(checked.store, user_id, now)
                 ELSE checked.store
        IN  /\ admin_responses' =
                  IF has_reply THEN [admin_responses EXCEPT ![user_id] = popped.list]
                  ELSE admin_responses
            /\ delivered' =
                  IF has_reply
                  THEN [delivered EXCEPT ![user_id] = Append(@, popped.value)]
                  ELSE delivered
            /\ active_consultations' = s.active_consultations
            /\ summaries' = s.summaries
            /\ notices' = s.notices
            /\ resp' = [NoResp EXCEPT
                           !.endpoint = "check_reply", !.user = user_id,
                           !.before = active_consultations[user_id],
                           !.status = 200,
                           !.handed = IF has_reply THEN Some(popped.value)
                                      ELSE None,
                           !.ended = EndedBy(s)]
            /\ UNCHANGED <<rag, now, topic_ids, accepted, threads>>

(* what the operator sends: text, a photo (video and document take the   *)
(* same steps), or a message with none of these                          *)
Contents == {"text", "photo", "sticker"}

(* the topics a message can come from: the one made for a user, or none *)
ThreadIds == {Some(u) : u \in Users} \cup {None}

(* app.py 621: next(uid for uid, tid in topic_ids.items() if tid == thread_id) *)
TargetUser(thread_id) ==
    IF thread_id # None /\ \E u \in Users : topic_ids[u] = thread_id
    THEN Some(CHOOSE u \in Users : topic_ids[u] = thread_id)
    ELSE None

(* the replies accepted so far: accepted has, in the order of their      *)
(* arrival, the replies that the webhook queued and the topic of each    *)
RepliesAccepted == Len(accepted)

(* the messages of the webhook: one of the bot itself, and those of the  *)
(* operator in a topic or outside; fetched is whether Telegram gives the *)
(* URL of the file                                                       *)
Updates(C) ==
    {[is_bot |-> TRUE, thread_id |-> None, content |-> "text", fetched |-> FALSE]}
    \cup {[is_bot |-> FALSE, thread_id |-> None, content |-> "text",
           fetched |-> FALSE]}
    \cup {[is_bot |-> FALSE, thread_id |-> Some(u), content |-> c, fetched |-> f] :
              u \in Users, c \in C, f \in BOOLEAN}

(* app.py 607-699 *)
telegram_webhook(C) ==
    \E msg \in Updates(C) :
        LET is_bot == msg.is_bot
            thread_id == msg.thread_id
            content == msg.content
            fetched == msg.fetched
            target_user_id == IF is_bot THEN None ELSE TargetUser(thread_id)
            user_id == Val(target_user_id)
            checked == IF target_user_id = None
                       THEN [active |-> FALSE, store |-> Store]
                       ELSE is_session_active(Store, user_id, now)
            queued == /\ checked.active
                      /\ \/ content = "text"
                         \/ content = "photo" /\ fetched
            reply == [id |-> RepliesAccepted + 1]
            s == IF queued
                 THEN update_session_activity(checked.store, user_id, now)
                 ELSE checked.store
        IN  /\ content = "photo" \/ ~fetched
            /\ queued => RepliesAccepted < MaxReplies
            /\ admin_responses' =
                  IF queued THEN [admin_responses EXCEPT ![user_id] = Append(@, reply)]
                  ELSE admin_responses
            /\ accepted' =
                  IF queued
                  THEN Append(accepted, [thread_id |-> thread_id, reply |-> reply])
                  ELSE accepted
            /\ active_consultations' = s.active_consultations
            /\ summaries' = s.summaries
            /\ notices' = s.notices
            /\ resp' = [NoResp EXCEPT
                           !.endpoint = "webhook",
                           !.user = IF target_user_id = None THEN "" ELSE user_id,
                           !.before = IF target_user_id = None THEN None
                                      ELSE active_consultations[user_id],
                           !.status = 200,
                           !.queued = queued,
                           !.ended = EndedBy(s)]
            /\ UNCHANGED <<rag, now, topic_ids, delivered, threads>>

(* app.py 701-718 *)
session_status(U) ==
    \E user_id \in U :
        LET checked == is_session_active(Store, user_id, now)
        IN  /\ active_consultations' = checked.store.active_consultations
            /\ summaries' = checked.store.summaries
            /\ notices' = checked.store.notices
            /\ resp' = [NoResp EXCEPT
                           !.endpoint = "session_status", !.user = user_id,
                           !.before = active_consultations[user_id],
                           !.status = 200,
                           !.type = IF checked.active THEN "active" ELSE "inactive",
                           !.ended = EndedBy(checked.store)]
            /\ UNCHANGED <<rag, now, admin_responses, topic_ids, accepted,
                           delivered, threads>>

(* time passes between two requests *)
Tick(D) ==
    \E d \in D :
        /\ now + d <= MaxNow
        /\ now' = now + d
        /\ resp' = NoResp
        /\ UNCHANGED <<rag, active_consultations, admin_responses, topic_ids,
                       summaries, notices, accepted, delivered, threads>>

InitWeb == InitProcessor /\ doc = NoDocument

(* one user at all endpoints *)
NextWeb ==
    \/ chat({"u1"}, Messages)
    \/ upload_file({"u1"})
    \/ check_reply({"u1"})
    \/ telegram_webhook(Contents)
    \/ session_status({"u1"})
    \/ Tick(Delays)

SpecWeb == InitWeb /\ [][NextWeb]_vars

(* two users and the operator: sessions begin and are ended by the end *)
(* command, replies come and go                                       *)
NextReplies ==
    \/ chat(Users, {<<"sangdam", "won">>, <<"jongryo">>})
    \/ telegram_webhook(Contents)
    \/ check_reply(Users)

SpecReplies == InitWeb /\ [][NextReplies]_vars

-----------------------------------------------------------------------------
(* Properties of the web application.  resp is the answer to the request  *)
(* handled last and resp.before the session of its user before it; no     *)
(* time has passed since, so now is the time of the request.              *)

Handled == resp.endpoint # "" /\ resp.user # ""

(* the user of the request had a session and it was within the timeout *)
ActiveBefore ==
    /\ resp.before # None
    /\ now - Val(resp.before).last_activity <= SESSION_TIMEOUT_MINUTES

(* the user of the request had a session past the timeout *)
ExpiredBefore ==
    /\ resp.before # None
    /\ now - Val(resp.before).last_activity > SESSION_TIMEOUT_MINUTES

(* the user has a session that did not exist before the request *)
NewSession ==
    /\ active_consultations[resp.user] # None
    /\ resp.before # None =>
           Val(active_consultations[resp.user]).session # Val(resp.before).session

(* the session of before the request is still there *)
SameSession ==
    /\ active_consultations[resp.user] # None /\ resp.before # None
    /\ Val(active_consultations[resp.user]).session = Val(resp.before).session
    /\ Val(active_consultations[resp.user]).start_time = Val(resp.before).start_time

(* C23: in chat, while the session of the user is active, a non-empty      *)
(* message that is no end command is forwarded to the operator and         *)
(* answered consultation_active; it starts no session (start_time stays),  *)
(* and gets no FAQ or default reply, whatever keywords it has.  A session  *)
(* starts only in chat, by a message with the operator keyword, sent while *)
(* no session is active.                                                   *)
C23_ActiveSessionForwards ==
    Handled =>
        LET user_message == strip(resp.message)
        IN  /\ ( /\ resp.endpoint = "chat" /\ ActiveBefore
                 /\ user_message # <<>> /\ user_message \notin EndCommands )
               => /\ resp.type = "consultation_active"
                  /\ resp.forwarded /\ ~resp.started
                  /\ SameSession
            /\ (NewSession \/ resp.started)
               => /\ resp.endpoint = "chat" /\ resp.started /\ NewSession
                  /\ ~ActiveBefore
                  /\ \E i \in 1..(Len(user_message) - 1) :
                        user_message[i] = "sangdam" /\ user_message[i + 1] = "won"

(* a message with the operator keyword and an FAQ keyword was forwarded *)
C23_Witness ==
    /\ resp.endpoint = "chat" /\ ActiveBefore
    /\ resp.message = <<"sangdam", "won", " ", "jongryo">>
    /\ resp.type = "consultation_active"

(* the handler looked whether the session of the user is active *)
Checked ==
    \/ resp.endpoint = "chat" /\ resp.status = 200
    \/ resp.endpoint = "upload" /\ resp.status # 400
    \/ resp.endpoint = "webhook"
    \/ resp.endpoint = "session_status"
    \/ resp.endpoint = "check_reply" /\ resp.handed # None

(* C24: a session whose last activity is more than SESSION_TIMEOUT_MINUTES *)
(* ago is active for no endpoint: the message of the user is not           *)
(* forwarded, the upload is refused with 403, the message of the operator  *)
(* is not queued, and the first check ends the session with reason         *)
(* timeout.  A forwarded message, an accepted upload and an accepted reply *)
(* of the operator set the time of the last activity to now.               *)
C24_ExpiredSessionIsInactive ==
    Handled =>
        /\ ExpiredBefore =>
              /\ ~resp.forwarded /\ ~resp.queued
              /\ resp.type \notin {"consultation_active", "session_end", "active"}
              /\ resp.endpoint = "upload" => resp.status \in {400, 403}
              /\ Checked =>
                    /\ resp.endpoint = "upload" => resp.status = 403
                    /\ resp.ended = "timeout"
                    /\ summaries # <<>>
                    /\ summaries[Len(summaries)] =
                          [user |-> resp.user,
                           session |-> Val(resp.before).session,
                           reason |-> "timeout"]
                    /\ ~SameSession
              /\ ~Checked => SameSession /\ resp.ended = ""
        /\ (resp.forwarded \/ resp.queued) =>
              /\ ActiveBefore /\ SameSession
              /\ Val(active_consultations[resp.user]).last_activity = now

(* an upload was refused because the session had timed out *)
C24_Witness ==
    /\ resp.endpoint = "upload" /\ ExpiredBefore
    /\ resp.status = 403 /\ resp.ended = "timeout"
    /\ active_consultations[resp.user] = None

(* the replies accepted in the topic of user u, in the order of arrival *)
AcceptedFor(u) ==
    LET mine == SelectSeq(accepted, LAMBDA a : a.thread_id = Some(u))
    IN  [k \in 1..Len(mine) |-> mine[k].reply]

(* C26: check_reply hands out the replies that the webhook accepted for a  *)
(* user one per call, in the order of their arrival, each once, and to the *)
(* user of the topic only; a reply still queued when the session ends      *)
(* stays queued and a later check_reply hands it out.                      *)
C26_RepliesInOrderOnce ==
    /\ \A u \in Users : AcceptedFor(u) = delivered[u] \o admin_responses[u]
    /\ \A i, j \in 1..Len(accepted) :
          accepted[i].reply.id = accepted[j].reply.id => i = j
    /\ resp.endpoint = "check_reply" =>
          IF resp.handed = None
          THEN admin_responses[resp.user] = <<>>
          ELSE /\ delivered[resp.user] # <<>>
               /\ delivered[resp.user][Len(delivered[resp.user])] = Val(resp.handed)

(* both users got a reply, one of them the second of two, after the        *)
(* session had ended                                                       *)
C26_Witness ==
    /\ resp.endpoint = "check_reply" /\ resp.handed # None
    /\ resp.before = None
    /\ Len(delivered[resp.user]) = 2
    /\ admin_responses[resp.user] = <<>>

-----------------------------------------------------------------------------
(* Requests handled at the same time.  Flask serves each request in a      *)
(* thread of its own; the threads share active_consultations, and another  *)
(* thread can run between any two lines of is_session_active and of        *)
(* end_consultation_session, most of all during the requests to Google     *)
(* Sheets and Telegram of lines 250-251 and 254.  Each step below is one   *)
(* access to the dict or one such request; pc is the line a thread is at.  *)

(* chat with an end command, and the requests that only look whether the *)
(* session is active (upload, check_reply, session_status, webhook)      *)
Kinds == {"end_command", "status"}

unthreaded == <<rag, now, admin_responses, topic_ids, accepted, delivered, resp>>

(* the session of line 216-219, started at time 0 *)
StartedSession == Some([start_time |-> 0, last_activity |-> 0, session |-> 1])

InitThreads ==
    /\ mode = "lexical" /\ groq_client = FALSE
    /\ InitInstance
    /\ disk = EmptyDisk
    /\ ret = NoRet
    /\ InitProcs
    /\ doc = NoDocument /\ call = NoCall
    /\ now \in {0, SESSION_TIMEOUT_MINUTES + 1}
    /\ active_consultations = [u \in Users |-> IF u = "u1" THEN StartedSession
                                                ELSE None]
    /\ admin_responses = [u \in Users |-> <<>>]
    /\ topic_ids = [u \in Users |-> IF u = "u1" THEN Some(u) ELSE None]
    /\ summaries = <<>>
    /\ notices = <<>>
    /\ accepted = <<>>
    /\ delivered = [u \in Users |-> <<>>]
    /\ resp = NoResp
    /\ threads = [t \in Threads |-> NoThread]

(* the request is answered; raised is the line whose KeyError left the *)
(* handler, "" when there was none                                     *)
Answer(t, raised) ==
    threads' = [threads EXCEPT ![t] = [NoThread EXCEPT !.raised = raised]]

Goto(t, pc) == threads' = [threads EXCEPT ![t].pc = pc]

(* a request of user u1 arrives and its handler calls is_session_active *)
Arrives(t) ==
    /\ threads[t].pc = Idle
    /\ \E kind \in Kinds :
          threads' = [threads EXCEPT ![t] = [NoThread EXCEPT
                          !.pc = "229", !.kind = kind, !.user = "u1"]]
    /\ UNCHANGED <<unthreaded, active_consultations, summaries, notices>>

(* app.py 229-230: user_id not in active_consultations *)
ActiveTest(t) ==
    /\ threads[t].pc = "229"
    /\ IF active_consultations[threads[t].user] = None
       THEN Answer(t, "")
       ELSE Goto(t, "232")
    /\ UNCHANGED <<unthreaded, active_consultations, summaries, notices>>

(* app.py 232: active_consultations[user_id]['last_activity'], a KeyError *)
(* when the entry is gone                                                 *)
ActiveRead(t) ==
    /\ threads[t].pc = "232"
    /\ IF active_consultations[threads[t].user] = None
       THEN Answer(t, "232")
       ELSE threads' = [threads EXCEPT
                ![t].pc = "235",
                ![t].session_info = active_consultations[threads[t].user]]
    /\ UNCHANGED <<unthreaded, active_consultations, summaries, notices>>

(* app.py 235-239, and 465 of chat: the session timed out is ended with  *)
(* reason timeout, the active one with reason manual by an end command   *)
ActiveCompare(t) ==
    /\ threads[t].pc = "235"
    /\ IF TimedOut(Val(threads[t].session_info).last_activity, now)
       THEN threads' = [threads EXCEPT ![t].pc = "244", ![t].reason = "timeout"]
       ELSE IF threads[t].kind = "end_command"
            THEN threads' = [threads EXCEPT ![t].pc = "244", ![t].reason = "manual"]
            ELSE Answer(t, "")
    /\ UNCHANGED <<unthreaded, active_consultations, summaries, notices>>

(* app.py 244: user_id in active_consultations *)
EndTest(t) ==
    /\ threads[t].pc = "244"
    /\ IF active_consultations[threads[t].user] = None
       THEN Answer(t, "")
       ELSE Goto(t, "245")
    /\ UNCHANGED <<unthreaded, active_consultations, summaries, notices>>

(* app.py 245-247: session_info = active_consultations[user_id] *)
EndRead(t) ==
    /\ threads[t].pc = "245"
    /\ IF active_consultations[threads[t].user] = None
       THEN Answer(t, "245")
       ELSE threads' = [threads EXCEPT
                ![t].pc = "251",
                ![t].session_info = active_consultations[threads[t].user]]
    /\ UNCHANGED <<unthreaded, active_consultations, summaries, notices>>

(* app.py 250-251: save_session_summary *)
EndSave(t) ==
    /\ threads[t].pc = "251"
    /\ summaries' = Append(summaries,
                           [user |-> threads[t].user,
                            session |-> Val(threads[t].session_info).session,
                            reason |-> threads[t].reason])
    /\ Goto(t, "253")
    /\ UNCHANGED <<unthreaded, active_consultations, notices>>

(* app.py 253: del active_consultations[user_id], a KeyError when the    *)
(* entry is gone                                                         *)
EndDelete(t) ==
    /\ threads[t].pc = "253"
    /\ IF active_consultations[threads[t].user] = None
       THEN Answer(t, "253") /\ UNCHANGED active_consultations
       ELSE /\ active_consultations' =
                  [active_consultations EXCEPT ![threads[t].user] = None]
            /\ Goto(t, "254")
    /\ UNCHANGED <<unthreaded, summaries, notices>>

(* app.py 254: notify_admin_session_end *)
EndNotify(t) ==
    /\ threads[t].pc = "254"
    /\ notices' = Append(notices,
                         [user |-> threads[t].user,
                          session |-> Val(threads[t].session_info).session,
                          reason |-> threads[t].reason])
    /\ Answer(t, "")
    /\ UNCHANGED <<unthreaded, active_consultations, summaries>>

NextThreads ==
    \E t \in Threads :
        \/ Arrives(t)
        \/ ActiveTest(t)
        \/ ActiveRead(t)
        \/ ActiveCompare(t)
        \/ EndTest(t)
        \/ EndRead(t)
        \/ EndSave(t)
        \/ EndDelete(t)
        \/ EndNotify(t)

SpecThreads == InitThreads /\ [][NextThreads]_vars

(* C25: a session that was started is ended at most once: it has at most  *)
(* one summary record and the operator at most one end notice, whether    *)
(* the end command or the timeout ends it and whether the requests of the *)
(* user are handled one by one or at the same time; ending a session that *)
(* is not active changes nothing and does not raise.                      *)
C25_EndedAtMostOnce ==
    /\ \A i, j \in 1..Len(summaries) :
          ( /\ summaries[i].user = summaries[j].user
            /\ summaries[i].session = summaries[j].session ) => i = j
    /\ \A i, j \in 1..Len(notices) :
          ( /\ notices[i].user = notices[j].user
            /\ notices[i].session = notices[j].session ) => i = j
    /\ \A t \in Threads : threads[t].raised \notin {"245", "253"}

====
